---- MODULE Spec2Model ----
(***************************************************************************)
(* A model of djblets' extension manager (djblets/extensions/manager.py):  *)
(* the ref-counted SettingListWrapper, and the ExtensionManager of several *)
(* worker processes that share a database of RegisteredExtension rows and  *)
(* a cache-backed sync generation.                                         *)
(***************************************************************************)
EXTENDS Naturals, Sequences, FiniteSets, TLC

VARIABLES
    slw,          \* a SettingListWrapper on its own: [setting, ref_counts]
    slw_initial,  \* the list the wrapper was constructed over
    slw_adds,     \* per item: add() calls that returned normally
    slw_removes,  \* per item: remove() calls that returned normally
    slw_last,     \* the last call on the wrapper and its outcome
    mgr,          \* per process: the ExtensionManager and its classes
    db,           \* the RegisteredExtension table, shared by the processes
    cache_gen,    \* the sync generation held in the shared cache
    entrypoints,  \* extensions whose package is installed on the system
    last,         \* the last manager call and what it did
    dict_order,   \* the order in which a dict of extensions is iterated
    calls,        \* steps made so far
    stale,        \* processes that have not reloaded since another's change
    graph,        \* per extension class: its declared requirements
    mw,           \* an enabled set and the middleware list computed for it
    iv,           \* a registration and what _init_extension made of it
    media,        \* the callers of install_extension_media and the files
    pipeline,     \* per process: Pipeline's STYLESHEETS and JAVASCRIPT
    race,         \* the table of registrations and the loads that race for it
    rl,           \* the login rate limit: the clock, the cache and the attempts made
    sc,           \* SiteConfiguration objects of one process and their _DEFAULTS
    av,           \* requests with their avatar caches, and the avatars of the users
    sg            \* the stored SiteConfiguration, its generation and the copies held

slw_vars == <<slw, slw_initial, slw_adds, slw_removes, slw_last>>

mgr_vars == <<mgr, db, cache_gen, entrypoints, last, dict_order, calls,
              stale>>

other_vars == <<graph, mw, iv, media>>

aux_vars == <<pipeline, race, rl, sc, av, sg>>

vars == <<slw, slw_initial, slw_adds, slw_removes, slw_last,
          mgr, db, cache_gen, entrypoints, last, dict_order, calls, stale,
          graph, mw, iv, media, pipeline,
          race,
          rl,
          sc,
          av,
          sg>>

----------------------------------------------------------------------------
(* Bounds of the model.                                                    *)

\* add() calls per item in one behaviour of the wrapper.
MaxAdds == 2
\* Length of the lists handed to add_list() and remove_list().
MaxListLen == 2
\* Steps (manager calls and package removals) in one behaviour of the
\* managers.
MaxOps == 4

----------------------------------------------------------------------------
(* Sequences as Python lists.                                              *)

Contains(seq, item) == \E i \in 1..Len(seq) : seq[i] = item

NoDuplicates(seq) == \A i, j \in 1..Len(seq) : seq[i] = seq[j] => i = j

\* list.remove(item): drops the first occurrence.
ListRemove(seq, item) ==
    LET i == CHOOSE k \in 1..Len(seq) :
                 seq[k] = item /\ \A j \in 1..(k - 1) : seq[j] # item
    IN  SubSeq(seq, 1, i - 1) \o SubSeq(seq, i + 1, Len(seq))

\* Sequences over S of length 0..n.
SeqsUpTo(S, n) == UNION {[1..k -> S] : k \in 0..n}

----------------------------------------------------------------------------
(* SettingListWrapper.  ref_counts is a Python dict: a function whose      *)
(* domain is the set of keys present.                                      *)

SLWItems == {"x", "y"}

\* SettingListWrapper.__init__: every item of the setting starts at 1.
SettingListWrapper(setting) ==
    [setting    |-> setting,
     ref_counts |-> [i \in {setting[k] : k \in 1..Len(setting)} |-> 1]]

DictSet(d, k, v) == [i \in (DOMAIN d) \cup {k} |-> IF i = k THEN v ELSE d[i]]

DictDel(d, k) == [i \in (DOMAIN d) \ {k} |-> d[i]]

\* A faulty add() that appends whether or not the item is already counted.
add_always_appends(w, item) ==
    [w   |-> [setting    |-> Append(w.setting, item),
              ref_counts |-> DictSet(w.ref_counts, item,
                                     IF item \in DOMAIN w.ref_counts
                                     THEN w.ref_counts[item] + 1 ELSE 1)],
     exc |-> "none"]

\* add(item): the wrapper afterwards, and the exception raised ("none").
add(w, item) ==
    IF item \in DOMAIN w.ref_counts
    THEN [w   |-> [w EXCEPT !.ref_counts[item] = @ + 1],
          exc |-> "none"]
    ELSE IF Contains(w.setting, item)
         THEN [w |-> w, exc |-> "AssertionError"]
         ELSE [w   |-> [setting    |-> Append(w.setting, item),
                        ref_counts |-> DictSet(w.ref_counts, item, 1)],
               exc |-> "none"]

\* add_list(items): add() for each item in turn; an exception ends the loop.
\* done is the number of items whose add() returned.
RECURSIVE add_list_from(_, _, _)
add_list_from(w, items, k) ==
    IF k > Len(items)
    THEN [w |-> w, exc |-> "none", done |-> Len(items)]
    ELSE LET r == add(w, items[k])
         IN  IF r.exc # "none"
             THEN [w |-> r.w, exc |-> r.exc, done |-> k - 1]
             ELSE add_list_from(r.w, items, k + 1)

add_list(w, items) == add_list_from(w, items, 1)

\* A faulty remove() that drops the item whatever its ref count.
remove_ignores_count(w, item) ==
    IF item \notin DOMAIN w.ref_counts \/ ~Contains(w.setting, item)
    THEN [w |-> w, ret |-> FALSE, exc |-> "AssertionError"]
    ELSE [w   |-> [setting    |-> ListRemove(w.setting, item),
                   ref_counts |-> DictDel(w.ref_counts, item)],
          ret |-> TRUE,
          exc |-> "none"]

\* remove(item): the wrapper afterwards, the returned bool and the exception.
remove(w, item) ==
    IF item \notin DOMAIN w.ref_counts
    THEN [w |-> w, ret |-> FALSE, exc |-> "AssertionError"]
    ELSE IF ~Contains(w.setting, item)
    THEN [w |-> w, ret |-> FALSE, exc |-> "AssertionError"]
    ELSE IF w.ref_counts[item] = 1
    THEN [w   |-> [setting    |-> ListRemove(w.setting, item),
                   ref_counts |-> DictDel(w.ref_counts, item)],
          ret |-> TRUE,
          exc |-> "none"]
    ELSE [w   |-> [w EXCEPT !.ref_counts[item] = @ - 1],
          ret |-> FALSE,
          exc |-> "none"]

\* remove_list(items): remove() for each item in turn.  Only a ValueError is
\* caught (the item then counts as removed); any other exception leaves the
\* loop.  removed is the returned list, done the number of items processed.
RECURSIVE remove_list_from(_, _, _, _)
remove_list_from(w, items, k, removed_items) ==
    IF k > Len(items)
    THEN [w |-> w, ret |-> removed_items, exc |-> "none", done |-> Len(items)]
    ELSE LET r == remove(w, items[k])
         IN  IF r.exc = "ValueError"
             THEN remove_list_from(r.w, items, k + 1,
                                   Append(removed_items, items[k]))
             ELSE IF r.exc # "none"
             THEN [w |-> r.w, ret |-> removed_items, exc |-> r.exc,
                   done |-> k - 1]
             ELSE remove_list_from(r.w, items, k + 1,
                                   IF r.ret
                                   THEN Append(removed_items, items[k])
                                   ELSE removed_items)

remove_list(w, items) == remove_list_from(w, items, 1, <<>>)

----------------------------------------------------------------------------
(* The extensions of the model, and what each declares.                    *)

Procs == {"p1", "p2"}

Exts == {"a", "b"}

\* Extension.requirements: b requires a.
requirements(x) == graph[x]

\* The requirements the two extension classes declare: b requires a.
DeclaredRequirements == [x \in Exts |-> IF x = "b" THEN <<"a">> ELSE <<>>]

\* extension.apps or [extension.info.app_name]
apps(x) ==
    CASE x = "a" -> <<"app_a">>
      [] x = "b" -> <<"app_b">>

\* Extension.context_processors: a and b name the same one.
context_processors(x) ==
    CASE x = "a" -> <<"cp_shared">>
      [] x = "b" -> <<"cp_shared">>

\* Extension.middleware_instances
middleware_instances(x) == <<x>>

\* settings.DEBUG of a production deployment.
DEBUG == FALSE

should_install_static_media == ~DEBUG

\* ext_class.info.version: the version of the package on the system.
CurVersion == "v1"

\* pkg_resources.parse_version(v) < pkg_resources.parse_version(u)
VersionLess(v, u) ==
    LET rank(t) == CASE t = "v1" -> 1 [] t = "v2" -> 2 [] OTHER -> 0
    IN  rank(v) < rank(u)

\* settings.INSTALLED_APPS and the context processors before any extension.
BaseApps == <<"base_app">>

BaseContextProcessors == <<"base_cp">>

\* Orders in which a dict of extensions may be iterated.
DictOrders ==
    {o \in [1..Cardinality(Exts) -> Exts] :
        \A i, j \in 1..Cardinality(Exts) : o[i] = o[j] => i = j}

\* The entries of order that are in S, in order.
Restrict(order, S) == SelectSeq(order, LAMBDA e : e \in S)

SeqSet(seq) == {seq[k] : k \in 1..Len(seq)}

\* RegisteredExtension rows.  version stands for the row's
\* settings[VERSION_SETTINGS_KEY]; "none" is None.
NoRow == [exists |-> FALSE, enabled |-> FALSE, installed |-> FALSE,
          version |-> "none"]

\* RegisteredExtension.objects.create(class_name=..., name=...)
NewRow == [exists |-> TRUE, enabled |-> FALSE, installed |-> FALSE,
           version |-> "none"]

\* ext_class.info; requirements are resolved at the end of a load.
NoInfo == [exists |-> FALSE, requirements |-> {}]

NewInfo == [exists |-> TRUE, requirements |-> {}]

\* The static bundles the extension classes declare, by bundle name: both
\* classes name a bundle "default", and only one names its output file.
css_bundles(x) ==
    IF x = "a"
    THEN [n \in {"default"} |-> [source_filenames |-> <<"style.less">>]]
    ELSE [n \in {"default"} |-> [source_filenames |-> <<"style.less">>,
                                 output_filename  |-> <<"b.min.css">>]]

js_bundles(x) ==
    IF x = "a"
    THEN [n \in {"default"} |-> [source_filenames |-> <<"main.js">>]]
    ELSE <<>>

\* extension.get_bundle_id(name): the bundle name with the extension ID.
get_bundle_id(x, name) == <<x, name>>

\* settings.PIPELINE is there: pipeline.conf reads it when it is imported.
HasPipelineSetting == TRUE

\* Pipeline's settings with no bundle of an extension.
NoBundles == [STYLESHEETS |-> <<>>, JAVASCRIPT |-> <<>>]

\* _add_prefix in _register_static_bundles: 'ext/%s/%s'
_add_prefix(x, filename) == <<"ext", x>> \o filename

\* The bundle _add_bundles stores for the bundle name of extension x.
new_bundle(x, name, bundle, default_dir, ext) ==
    [source_filenames |->
         [i \in DOMAIN bundle.source_filenames |->
              _add_prefix(x, <<bundle.source_filenames[i]>>)],
     output_filename |->
         _add_prefix(x, IF "output_filename" \in DOMAIN bundle
                        THEN bundle.output_filename
                        ELSE <<default_dir, name, ".min", ext>>)]

\* _add_bundles in _register_static_bundles
_add_bundles(pipeline_bundles, x, extension_bundles, default_dir, ext) ==
    LET ids == {get_bundle_id(x, n) : n \in DOMAIN extension_bundles}
    IN  [id \in DOMAIN pipeline_bundles \cup ids |->
            IF id \in ids
            THEN LET name == CHOOSE n \in DOMAIN extension_bundles :
                                 get_bundle_id(x, n) = id
                 IN  new_bundle(x, name, extension_bundles[name],
                                default_dir, ext)
            ELSE pipeline_bundles[id]]

\* _remove_bundles in _unregister_static_bundles
_remove_bundles(pipeline_bundles, x, extension_bundles) ==
    LET ids == {get_bundle_id(x, n) : n \in DOMAIN extension_bundles}
    IN  [id \in DOMAIN pipeline_bundles \ ids |-> pipeline_bundles[id]]

\* ExtensionManager.__init__, with sync generation gen.
ExtensionManager(gen) ==
    [classes            |-> {},
     instances          |-> {},
     load_errors        |-> {},
     registration       |-> [x \in Exts |-> NoRow],
     info               |-> [x \in Exts |-> NoInfo],
     block_sync_gen     |-> FALSE,
     sync_gen           |-> gen,
     middleware         |-> <<>>,
     installed_apps     |-> SettingListWrapper(BaseApps),
     context_processors |-> SettingListWrapper(BaseContextProcessors)]

\* What one call works on: the manager of its process, the database, the
\* cache, the exception in flight, and a record of what the call did.
World(m, rows, gen) ==
    [classes            |-> m.classes,
     instances          |-> m.instances,
     load_errors        |-> m.load_errors,
     registration       |-> m.registration,
     info               |-> m.info,
     block_sync_gen     |-> m.block_sync_gen,
     sync_gen           |-> m.sync_gen,
     middleware         |-> m.middleware,
     installed_apps     |-> m.installed_apps,
     context_processors |-> m.context_processors,
     db                 |-> rows,
     cache              |-> gen,
     exc                |-> "none",
     changed            |-> FALSE,
     marks              |-> 0,
     blocked            |-> 0,
     inits              |-> <<>>,
     uninits            |-> <<>>,
     half_inited        |-> {},
     stored             |-> {},
     attempted          |-> {},
     synced             |-> {},
     pipeline           |-> NoBundles]

Manager(w) ==
    [classes            |-> w.classes,
     instances          |-> w.instances,
     load_errors        |-> w.load_errors,
     registration       |-> w.registration,
     info               |-> w.info,
     block_sync_gen     |-> w.block_sync_gen,
     sync_gen           |-> w.sync_gen,
     middleware         |-> w.middleware,
     installed_apps     |-> w.installed_apps,
     context_processors |-> w.context_processors]

Raise(w, e) == [w EXCEPT !.exc = e]

\* The failure injected into a call: extension ext fails in the way kind.
\*   "entry": entrypoint.load() raises        "ctor": the constructor raises
\*   "media": installing static media raises  "sync": the evolution fails
Failures ==
    {[ext |-> "a", kind |-> "none"]}
    \cup [ext : Exts, kind : {"entry", "ctor", "media", "sync"}]

FailOf(f, x) == IF f.ext = x THEN f.kind ELSE "none"

----------------------------------------------------------------------------
(* Evaluates the world w once and applies F to it: a statement works on    *)
(* the one world the statements before it have left.                       *)
(***************************************************************************)
Bind(w, F(_)) == CHOOSE r \in {F(v) : v \in {w}} : TRUE

----------------------------------------------------------------------------
(* GenerationSynchronizer: the sync generation kept in the shared cache,   *)
(* and the generation each manager last synchronized to.                   *)

\* GenerationSynchronizer.is_expired
is_expired(m, gen) == gen # m.sync_gen

\* GenerationSynchronizer.mark_updated: increments the cached generation
\* and takes the new value as this manager's own.
mark_updated(w) ==
    Bind(w, LAMBDA v :
        [v EXCEPT !.cache = @ + 1, !.sync_gen = v.cache + 1, !.marks = @ + 1])

\* GenerationSynchronizer.refresh
refresh(w) ==
    Bind(w, LAMBDA v :
        [v EXCEPT !.sync_gen = v.cache])

----------------------------------------------------------------------------
(* ExtensionManager.  Every operator takes the world w a statement starts  *)
(* in and yields the world it ends in; a world with an exception in flight *)
(* passes through the statements that follow unchanged.  f is the failure  *)
(* injected into the call, order the order in which dicts are iterated.    *)

Raised(w) == w.exc # "none"

\* A faulty _bump_sync_gen() that does not look at _block_sync_gen.
_bump_sync_gen_unblocked(w) == mark_updated(w)

_bump_sync_gen(w) ==
    Bind(w, LAMBDA v :
        IF v.block_sync_gen
        THEN [v EXCEPT !.blocked = @ + 1]
        ELSE mark_updated(v))

_store_load_error(w, x) ==
    [w EXCEPT !.load_errors = @ \cup {x}, !.stored = @ \cup {x}]

\* registration.save(): writes every column of the manager's copy.
save(w, x) ==
    Bind(w, LAMBDA v :
        [v EXCEPT !.db[x] = v.registration[x]])

\* middleware.extend(...) with the list and the done set a call returned.
extend(acc, r) == [mw |-> acc.mw \o r.mw, done |-> r.done]

\* A faulty _get_extension_middleware() that does not look at the
\* requirements.
own_middleware_only(w, x, done) ==
    [mw |-> middleware_instances(x), done |-> done \cup {x}]

\* middleware.extend(extension.middleware_instances)
own_middleware(acc, x) ==
    [mw |-> acc.mw \o middleware_instances(x), done |-> acc.done]

RECURSIVE _get_extension_middleware(_, _, _)
RECURSIVE requirement_middleware(_, _, _, _)

\* The loop over extension.requirements in _get_extension_middleware.
requirement_middleware(w, reqs, k, acc) ==
    Bind(w, LAMBDA v :
        IF k > Len(reqs) THEN acc
        ELSE IF reqs[k] \in v.instances
        THEN requirement_middleware(
                 v, reqs, k + 1,
                 extend(acc, _get_extension_middleware(v, reqs[k], acc.done)))
        ELSE requirement_middleware(v, reqs, k + 1, acc))

_get_extension_middleware(w, x, done) ==
    IF x \in done
    THEN [mw |-> <<>>, done |-> done]
    ELSE own_middleware(
             requirement_middleware(w, requirements(x), 1,
                                    [mw |-> <<>>, done |-> done \cup {x}]),
             x)

\* The loop over get_enabled_extensions() in _recalculate_middleware.
RECURSIVE recalculate_from(_, _, _, _)
recalculate_from(w, exts, k, acc) ==
    Bind(w, LAMBDA v :
        IF k > Len(exts) THEN acc.mw
        ELSE recalculate_from(
                 v, exts, k + 1,
                 extend(acc, _get_extension_middleware(v, exts[k], acc.done))))

_recalculate_middleware(w, order) ==
    Bind(w, LAMBDA v :
        [v EXCEPT !.middleware =
            recalculate_from(v, Restrict(order, v.instances), 1,
                             [mw |-> <<>>, done |-> {}])])

\* The wrapper of INSTALLED_APPS after a call on it that returned r.
installed_apps_after(w, r) ==
    [w EXCEPT !.installed_apps = r.w, !.exc = r.exc]

\* The wrapper of the context processors after a call that returned r.
context_processors_after(w, r) ==
    [w EXCEPT !.context_processors = r.w, !.exc = r.exc]

\* ext_class(extension_manager=self) and the registration of the instance.
\* The constructor reads the class's registration, so a class that has none
\* cannot be constructed.
construct(w, x, f) ==
    Bind(w, LAMBDA v :
        IF Raised(v) THEN v
        ELSE IF f = "ctor" \/ ~v.registration[x].exists
        THEN Raise(_store_load_error([v EXCEPT !.attempted = @ \cup {x}], x),
                   "EnablingExtensionError")
        ELSE [v EXCEPT !.attempted = @ \cup {x},
                       !.load_errors = @ \ {x},
                       !.instances = @ \cup {x},
                       !.inits = Append(@, x)])

_register_static_bundles(w, x) ==
    Bind(w, LAMBDA v :
        IF Raised(v) THEN v
        ELSE [v EXCEPT !.pipeline =
                 [STYLESHEETS |-> _add_bundles(@.STYLESHEETS, x,
                                               css_bundles(x), "css", ".css"),
                  JAVASCRIPT  |-> _add_bundles(@.JAVASCRIPT, x,
                                               js_bundles(x), "js", ".js")]])

_add_to_installed_apps(w, x) ==
    Bind(w, LAMBDA v :
        IF Raised(v) THEN v
        ELSE installed_apps_after(v, add_list(v.installed_apps, apps(x))))

add_context_processors(w, x) ==
    Bind(w, LAMBDA v :
        IF Raised(v) THEN v
        ELSE context_processors_after(
                 v, add_list(v.context_processors, context_processors(x))))

\* install_extension_media: errors of the lock file and of the version file
\* are IOErrors, which _init_extension does not catch.
install_extension_media(w, x, f) ==
    Bind(w, LAMBDA v :
        IF Raised(v) THEN v
        ELSE IF should_install_static_media /\ f = "media"
        THEN Raise(v, "IOError")
        ELSE v)

\* A faulty version test that always asks for the database sync.
sync_always(w, x) == TRUE

\* Whether _init_extension finds the stored version missing or older.
sync_needed(w, x) ==
    LET reg == w.registration[x]
        old_version == IF reg.installed THEN reg.version ELSE "none"
    IN  old_version = "none" \/ VersionLess(old_version, CurVersion)

\* _sync_database() and the recording of the version, when it is needed.
\* A failed evolution stores a load error and raises InstallExtensionError.
_sync_database(w, x, f) ==
    Bind(w, LAMBDA v :
        IF Raised(v) \/ ~sync_needed(v, x) THEN v
        ELSE IF f = "sync"
        THEN Raise(_store_load_error([v EXCEPT !.synced = @ \cup {x}], x),
                   "InstallExtensionError")
        ELSE save([v EXCEPT !.registration[x].version = CurVersion,
                            !.synced = @ \cup {x}], x))

\* ext_class.registration.installed = True; ext_class.registration.save()
mark_installed(w, x) ==
    Bind(w, LAMBDA v :
        IF Raised(v) THEN v
        ELSE save([v EXCEPT !.registration[x].installed = TRUE], x))

\* Notes an initialization that failed after the instance was registered.
note_half_inited(w, x) ==
    Bind(w, LAMBDA v :
        IF Raised(v) /\ x \in v.instances
        THEN [v EXCEPT !.half_inited = @ \cup {x}]
        ELSE v)

\* _init_extension(ext_class), failing in the way f ("none": not at all).
_init_extension(w, x, f) ==
    Bind(w, LAMBDA v :
        IF Raised(v) THEN v
        ELSE note_half_inited(
                 mark_installed(
                     _sync_database(
                         install_extension_media(
                             add_context_processors(
                                 _add_to_installed_apps(
                                     _register_static_bundles(
                                         construct(v, x, f), x),
                                     x),
                                 x),
                             x, f),
                         x, f),
                     x),
                 x))

remove_context_processors(w, x) ==
    Bind(w, LAMBDA v :
        IF Raised(v) THEN v
        ELSE context_processors_after(
                 v, remove_list(v.context_processors, context_processors(x))))

\* A faulty _remove_from_installed_apps() that leaves the apps in place.
_remove_from_installed_apps_skipped(w, x) == w

_remove_from_installed_apps(w, x) ==
    Bind(w, LAMBDA v :
        IF Raised(v) THEN v
        ELSE installed_apps_after(v, remove_list(v.installed_apps, apps(x))))

\* del self._extension_instances[extension.id]
forget_instance(w, x) ==
    Bind(w, LAMBDA v :
        IF Raised(v) THEN v ELSE [v EXCEPT !.instances = @ \ {x}])

_uninit_extension(w, x) ==
    Bind(w, LAMBDA v :
        IF Raised(v) THEN v
        ELSE forget_instance(
                 _remove_from_installed_apps(
                     remove_context_processors(
                         [v EXCEPT !.uninits = Append(@, x)], x),
                     x),
                 x))

_unregister_static_bundles(w, x) ==
    Bind(w, LAMBDA v :
        IF Raised(v) \/ ~HasPipelineSetting THEN v
        ELSE [v EXCEPT !.pipeline =
                 [STYLESHEETS |-> _remove_bundles(@.STYLESHEETS, x,
                                                  css_bundles(x)),
                  JAVASCRIPT  |-> _remove_bundles(@.JAVASCRIPT, x,
                                                  js_bundles(x))]])

_uninstall_extension(w, x) ==
    Bind(w, LAMBDA v :
        IF Raised(v) THEN v
        ELSE save([v EXCEPT !.registration[x].version = "none",
                            !.registration[x].installed = FALSE], x))

\* The IDs of the classes whose info.requirements hold x's class.
get_dependent_extensions(w, x, order) ==
    Bind(w, LAMBDA v :
        SelectSeq(Restrict(order, v.classes \ {x}),
                  LAMBDA y : x \in v.info[y].requirements))

\* registration.enabled = False; registration.save(update_fields=['enabled'])
\* on the registration of the class, or on the stored one when the class
\* is not there.
save_disabled(w, x) ==
    Bind(w, LAMBDA v :
        IF Raised(v) THEN v
        ELSE IF x \in v.classes
        THEN IF v.registration[x].exists
             THEN [v EXCEPT !.registration[x].enabled = FALSE,
                            !.db[x].enabled = FALSE]
             ELSE Raise(v, "AttributeError")
        ELSE IF v.db[x].exists
             THEN [v EXCEPT !.db[x].enabled = FALSE]
             ELSE Raise(v, "DoesNotExist"))

\* The end of enable_extension and of disable_extension.
state_changed(w, order) ==
    Bind(w, LAMBDA v :
        IF Raised(v) THEN v
        ELSE _recalculate_middleware(_bump_sync_gen(v), order))

\* A faulty disable_extension() without the early return.
disable_always_bumps(w, x, order) == state_changed(w, order)

RECURSIVE disable_extension(_, _, _)
RECURSIVE disable_each(_, _, _, _)

\* The loop over get_dependent_extensions() in disable_extension.
disable_each(w, ids, k, order) ==
    Bind(w, LAMBDA v :
        IF k > Len(ids) \/ Raised(v) THEN v
        ELSE disable_each(disable_extension(v, ids[k], order), ids, k + 1, order))

disable_extension(w, x, order) ==
    Bind(w, LAMBDA v :
        IF Raised(v) THEN v
        ELSE IF x \in v.load_errors
        THEN state_changed(
                 save_disabled([v EXCEPT !.load_errors = @ \ {x}], x), order)
        ELSE IF x \notin v.instances THEN v
        ELSE IF x \notin v.classes THEN Raise(v, "InvalidExtensionError")
        ELSE state_changed(
                 save_disabled(
                     _unregister_static_bundles(
                         _uninit_extension(
                             _uninstall_extension(
                                 disable_each(
                                     v, get_dependent_extensions(v, x, order),
                                     1, order),
                                 x),
                             x),
                         x),
                     x),
                 order))

\* ext_class.registration.enabled = True; ext_class.registration.save()
save_enabled(w, x) ==
    Bind(w, LAMBDA v :
        IF Raised(v) THEN v
        ELSE save([v EXCEPT !.registration[x].enabled = TRUE], x))

RECURSIVE enable_extension(_, _, _, _)
RECURSIVE enable_each(_, _, _, _, _)

\* The loop over ext_class.requirements in enable_extension.
enable_each(w, ids, k, f, order) ==
    Bind(w, LAMBDA v :
        IF k > Len(ids) \/ Raised(v) THEN v
        ELSE enable_each(enable_extension(v, ids[k], f, order), ids, k + 1,
                         f, order))

enable_extension(w, x, f, order) ==
    Bind(w, LAMBDA v :
        IF Raised(v) \/ x \in v.instances THEN v
        ELSE IF x \notin v.classes
        THEN Raise(v, IF x \in v.load_errors THEN "EnablingExtensionError"
                      ELSE "InvalidExtensionError")
        ELSE state_changed(
                 save_enabled(
                     _init_extension(
                         enable_each(v, requirements(x), 1, f, order),
                         x, FailOf(f, x)),
                     x),
                 order))

\* The loop over get_enabled_extensions() in _clear_extensions.
RECURSIVE uninit_each(_, _, _)
uninit_each(w, ids, k) ==
    Bind(w, LAMBDA v :
        IF k > Len(ids) \/ Raised(v) THEN v
        ELSE uninit_each(IF v.info[ids[k]].exists
                         THEN _uninit_extension(v, ids[k]) ELSE v,
                         ids, k + 1))

\* The second loop of _clear_extensions and the two dicts it empties.
forget_classes(w) ==
    Bind(w, LAMBDA v :
        IF Raised(v) THEN v
        ELSE [v EXCEPT
                !.info = [x \in Exts |->
                             IF x \in v.classes THEN NoInfo ELSE @[x]],
                !.registration = [x \in Exts |->
                             IF x \in v.classes THEN NoRow ELSE @[x]],
                !.classes = {},
                !.instances = {}])

_clear_extensions(w, order) ==
    Bind(w, LAMBDA v :
        forget_classes(uninit_each(v, Restrict(order, v.instances), 1)))

\* The except clause around _init_extension in _load_extensions.
after_init(w) ==
    Bind(w, LAMBDA v :
        IF v.exc = "EnablingExtensionError"
        THEN [v EXCEPT !.exc = "none", !.changed = IF DEBUG THEN TRUE ELSE @]
        ELSE IF Raised(v) THEN v
        ELSE [v EXCEPT !.changed = TRUE])

\* One pass of the loop over found_registrations, in a world where
\* ext_class.registration has been set.
init_registered(w, x, f) ==
    Bind(w, LAMBDA v :
        IF v.registration[x].enabled /\ x \notin v.instances
        THEN after_init(_init_extension(v, x, FailOf(f, x)))
        ELSE v)

\* The loop over found_registrations in _load_extensions.
RECURSIVE init_found(_, _, _, _)
init_found(w, ids, k, f) ==
    Bind(w, LAMBDA v :
        IF k > Len(ids) \/ Raised(v) THEN v
        ELSE init_found(
                 init_registered([v EXCEPT !.registration[ids[k]] = v.db[ids[k]]],
                                 ids[k], f),
                 ids, k + 1, f))

\* del self._extension_classes[class_name] inside the loop over that dict:
\* the dict changes size, so the iterator raises RuntimeError when it is
\* asked for the next item.
delete_class(w, x) ==
    Bind(w, LAMBDA v :
        IF Raised(v) THEN v
        ELSE Raise([v EXCEPT !.classes = @ \ {x}, !.changed = TRUE],
                   "RuntimeError"))

\* The loop over self._extension_classes that ends _load_extensions.
RECURSIVE remove_missing(_, _, _, _, _)
remove_missing(w, ids, k, found, order) ==
    Bind(w, LAMBDA v :
        IF k > Len(ids) \/ Raised(v) THEN v
        ELSE IF ids[k] \notin found
        THEN delete_class(IF ids[k] \in v.instances
                          THEN disable_extension(v, ids[k], order)
                          ELSE v,
                          ids[k])
        ELSE IF SeqSet(requirements(ids[k])) \subseteq v.classes
        THEN remove_missing(
                 [v EXCEPT !.info[ids[k]].requirements =
                               SeqSet(requirements(ids[k]))],
                 ids, k + 1, found, order)
        ELSE Raise(v, "InvalidExtensionError"))

\* The entry points of eps whose load() raises, and those that load.
broken_entrypoints(eps, f) == {x \in eps : FailOf(f, x) = "entry"}

found_extensions(eps, f) == eps \ broken_entrypoints(eps, f)

\* self._load_errors = {}
forget_load_errors(w) ==
    Bind(w, LAMBDA v :
        IF Raised(v) THEN v ELSE [v EXCEPT !.load_errors = {}])

\* A faulty full reload that clears nothing.
clear_nothing(w, full_reload, order) == w

\* if full_reload: self._clear_extensions(); self._load_errors = {}
clear_all(w, full_reload, order) ==
    Bind(w, LAMBDA v :
        IF Raised(v) \/ ~full_reload THEN v
        ELSE forget_load_errors(_clear_extensions(v, order)))

\* The loop over the entry points, and the registrations created for the
\* classes that have none.
find_extensions(w, eps, f) ==
    Bind(w, LAMBDA v :
        IF Raised(v) THEN v
        ELSE [v EXCEPT
                !.load_errors = @ \cup broken_entrypoints(eps, f),
                !.stored = @ \cup broken_entrypoints(eps, f),
                !.classes = @ \cup found_extensions(eps, f),
                !.info = [x \in Exts |->
                             IF x \in found_extensions(eps, f) /\ ~@[x].exists
                             THEN NewInfo ELSE @[x]],
                !.db = [x \in Exts |->
                           IF x \in found_extensions(eps, f) /\ ~@[x].exists
                           THEN NewRow ELSE @[x]]])

init_extensions(w, eps, f, order) ==
    Bind(w, LAMBDA v :
        IF Raised(v) THEN v
        ELSE init_found(v, Restrict(order, found_extensions(eps, f)), 1, f))

remove_extensions(w, eps, f, order) ==
    Bind(w, LAMBDA v :
        IF Raised(v) THEN v
        ELSE remove_missing(v, Restrict(order, v.classes), 1,
                            found_extensions(eps, f), order))

\* if extensions_changed: self._recalculate_middleware()
recalculate_if_changed(w, order) ==
    Bind(w, LAMBDA v :
        IF v.changed THEN _recalculate_middleware(v, order) ELSE v)

\* self._gen_sync.refresh() and what follows it.
\* A faulty end of _load_extensions that does not refresh the generation.
not_synchronized(w, order) == w

synchronized(w, order) ==
    Bind(w, LAMBDA v :
        IF Raised(v) THEN v
        ELSE recalculate_if_changed(refresh(v), order))

\* _load_extensions(full_reload) when the entry points eps are on the system.
_load_extensions(w, full_reload, eps, f, order) ==
    synchronized(
        remove_extensions(
            init_extensions(
                find_extensions(clear_all(w, full_reload, order), eps, f),
                eps, f, order),
            eps, f, order),
        order)

\* self._block_sync_gen = False, which an exception skips.
unblock(w) ==
    Bind(w, LAMBDA v :
        IF Raised(v) THEN v ELSE [v EXCEPT !.block_sync_gen = FALSE])

load(w, full_reload, eps, f, order) ==
    unblock(_load_extensions([w EXCEPT !.block_sync_gen = TRUE],
                             full_reload, eps, f, order))

shutdown(w, order) == _clear_extensions(w, order)

----------------------------------------------------------------------------
(* The managers of the worker processes, driven by arbitrary calls.        *)

Enabled(rows) == {x \in Exts : rows[x].exists /\ rows[x].enabled}

NoOp ==
    [op |-> "none", proc |-> "none", ext |-> "none", full |-> FALSE,
     exc |-> "none", marks |-> 0, blocked |-> 0, inits |-> <<>>,
     uninits |-> <<>>, half_inited |-> {}, stored |-> {}, attempted |-> {},
     inst_before |-> {}, err_before |-> {}, gen_before |-> 0,
     enabled_before |-> {}, cls_before |-> {},
     eps |-> {}, fail |-> [ext |-> "a", kind |-> "none"]]

\* Whether the call that ended in world w changed an extension's state.
ChangedState(p, w) ==
    \/ w.instances # mgr[p].instances
    \/ Enabled(w.db) # Enabled(db)

\* The call op of process p ended in world w: what it leaves behind.
Record(p, w, op, x, full, eps, f) ==
    \E v \in {w} :
        /\ mgr' = [mgr EXCEPT ![p] = Manager(v)]
        /\ db' = v.db
        /\ cache_gen' = v.cache
        /\ last' = [op |-> op, proc |-> p, ext |-> x, full |-> full,
                    exc |-> v.exc, marks |-> v.marks, blocked |-> v.blocked,
                    inits |-> v.inits, uninits |-> v.uninits,
                    half_inited |-> v.half_inited, stored |-> v.stored,
                    attempted |-> v.attempted,
                    inst_before |-> mgr[p].instances,
                    err_before |-> mgr[p].load_errors,
                    gen_before |-> cache_gen,
                    enabled_before |-> Enabled(db),
                    cls_before |-> mgr[p].classes,
                    eps |-> eps, fail |-> f]
        /\ stale' = [q \in Procs |->
                        IF q = p
                        THEN stale[q] /\ op \notin {"load", "install_extension"}
                        ELSE \/ stale[q]
                             \/ /\ op \in {"enable_extension", "disable_extension"}
                                /\ v.exc = "none"
                                /\ ChangedState(p, v)]
        /\ UNCHANGED <<dict_order, slw_vars, other_vars>>

\* One of the calls the managers are driven by.
Commit(p, w, op, x, full, eps, f) ==
    /\ calls < MaxOps
    /\ calls' = calls + 1
    /\ Record(p, w, op, x, full, eps, f)
    /\ UNCHANGED aux_vars

\* Every process has constructed its manager and made no call.
ProcessesStarted ==
    /\ mgr = [p \in Procs |-> ExtensionManager(0)]
    /\ cache_gen = 0
    /\ entrypoints = Exts
    /\ last = NoOp
    /\ calls = 0
    /\ stale = [p \in Procs |-> FALSE]

ManagerInit ==
    /\ ProcessesStarted
    /\ db = [x \in Exts |-> NoRow]

\* x and everything it requires, directly or not.
RECURSIVE WithRequirements(_)
WithRequirements(x) ==
    {x} \cup UNION {WithRequirements(r) : r \in SeqSet(requirements(x))}

\* The failures that can strike a load of process p: an entry point that is
\* there can fail to load, and an extension the load initializes can fail.
LoadFailures(p, full, eps) ==
    {f \in Failures :
        \/ f.kind = "none"
        \/ f.kind = "entry" /\ f.ext \in eps
        \/ /\ f.kind \in {"ctor", "media", "sync"}
           /\ f.ext \in eps
           /\ db[f.ext].exists /\ db[f.ext].enabled
           /\ (full \/ f.ext \notin mgr[p].instances)}

\* The failures that can strike enable_extension(x) in process p.
EnableFailures(p, x) ==
    {f \in Failures :
        \/ f.kind = "none"
        \/ /\ f.kind \in {"ctor", "media", "sync"}
           /\ f.ext \in WithRequirements(x)
           /\ f.ext \in mgr[p].classes \ mgr[p].instances}

Load(p) ==
    /\ \E full \in BOOLEAN :
       \E f \in LoadFailures(p, full, entrypoints) :
          Commit(p, load(World(mgr[p], db, cache_gen), full, entrypoints, f,
                         dict_order),
                 "load", "none", full, entrypoints, f)
    /\ UNCHANGED entrypoints

EnableExtension(p, x) ==
    /\ \E f \in EnableFailures(p, x) :
          Commit(p, enable_extension(World(mgr[p], db, cache_gen), x, f,
                                     dict_order),
                 "enable_extension", x, FALSE, {}, f)
    /\ UNCHANGED entrypoints

DisableExtension(p, x) ==
    /\ Commit(p, disable_extension(World(mgr[p], db, cache_gen), x,
                                   dict_order),
              "disable_extension", x, FALSE, {}, NoOp.fail)
    /\ UNCHANGED entrypoints

Shutdown(p) ==
    /\ Commit(p, shutdown(World(mgr[p], db, cache_gen), dict_order),
              "shutdown", "none", FALSE, {}, NoOp.fail)
    /\ UNCHANGED entrypoints

\* install_extension(): the package is installed, then load(True).
InstallExtension(p, x) ==
    /\ x \notin entrypoints
    /\ entrypoints' = entrypoints \cup {x}
    /\ \E f \in LoadFailures(p, TRUE, entrypoints \cup {x}) :
          Commit(p, load(World(mgr[p], db, cache_gen), TRUE,
                         entrypoints \cup {x}, f, dict_order),
                 "install_extension", x, TRUE, entrypoints \cup {x}, f)

\* An administrator removes an extension's package from the system.
RemovePackage(x) ==
    /\ x \in entrypoints
    /\ calls < MaxOps
    /\ calls' = calls + 1
    /\ entrypoints' = entrypoints \ {x}
    /\ UNCHANGED <<mgr, db, cache_gen, last, dict_order, stale, slw_vars,
                   other_vars, aux_vars>>

Next ==
    \/ \E p \in Procs : Load(p)
    \/ \E p \in Procs, x \in Exts : EnableExtension(p, x)
    \/ \E p \in Procs, x \in Exts : DisableExtension(p, x)
    \/ \E p \in Procs : Shutdown(p)
    \/ \E p \in Procs, x \in Exts : InstallExtension(p, x)
    \/ \E x \in Exts : RemovePackage(x)

\* No middleware list computed on its own.
NoMiddleware ==
    [instances |-> {}, order |-> <<>>, middleware |-> <<>>,
     recalculated |-> FALSE]

\* No registration initialized on its own.
NoInit ==
    [first |-> NoRow, before |-> NoRow, after |-> NoRow, synced |-> FALSE,
     exc |-> "none", prev_exc |-> "none", runs |-> 0]

\* No caller of install_extension_media, no lock file, no version stamp.
NoMedia ==
    [debug |-> FALSE, stamp |-> "none", path |-> 0, inodes |-> 0,
     locked |-> {}, call |-> <<>>]

\* The lone wrapper takes no part in the managers' behaviours.
SLWIdle ==
    /\ slw = SettingListWrapper(<<>>)
    /\ slw_initial = <<>>
    /\ slw_adds = [i \in SLWItems |-> 0]
    /\ slw_removes = [i \in SLWItems |-> 0]
    /\ slw_last = [op |-> "none", item |-> "none", items |-> <<>>,
                   ret |-> FALSE, removed |-> <<>>, exc |-> "none",
                   before |-> <<>>]

\* DEFAULT_LOGIN_LIMIT_RATE = '5/m', as RATE_RE splits it.
DEFAULT_LOGIN_LIMIT_RATE == [count |-> "5", multiplier |-> "", period |-> "m"]

\* No login attempt has been made, and the cache is empty.
NoAttempts ==
    [rate |-> DEFAULT_LOGIN_LIMIT_RATE, now |-> 0, cache |-> <<>>,
     made |-> <<>>, calls |-> 0,
     last |-> [user |-> "", increment |-> FALSE, nth |-> 0,
               ratelimited |-> FALSE, count |-> 0, limit |-> 0,
               time_left |-> 0]]

\* Python's None among the values of settings.
None == "None"

\* The SiteConfiguration objects of a process, by primary key.
SiteConfigs == {1, 2}

\* Freshly created configurations: no setting stored, _DEFAULTS = {}.
NoSiteConfig ==
    [settings |-> [c \in SiteConfigs |-> <<>>], _DEFAULTS |-> <<>>,
     calls |-> 0,
     last |-> [op |-> "none", id |-> 0, key |-> "", value |-> None,
               default |-> None, result |-> None]]

\* The requests avatars are rendered for, and the users: user.pk.
AvatarRequests == {"r1", "r2"}

AvatarUsers == {1, 2}

\* Requests without an _avatar_cache attribute, and users who have not
\* changed their avatar; nothing has been computed.
NoAvatars ==
    [requests |-> [r \in AvatarRequests |->
                      [has_avatar_cache |-> FALSE, _avatar_cache |-> <<>>]],
     avatar |-> [u \in AvatarUsers |-> 0],
     uncached |-> [r \in AvatarRequests |-> <<>>],
     first |-> [r \in AvatarRequests |-> <<>>],
     calls |-> 0,
     last |-> [request |-> "", user |-> 0, service |-> "", size |-> 0,
               urls |-> <<>>, computed |-> FALSE, avatar |-> 0]]

\* Every process holds the stored SiteConfiguration, whose settings are the
\* ones numbered 0, and has its generation.
NoSaves ==
    [row |-> 0, cache |-> 0, newest |-> 0, saves |-> 0,
     holder |-> [p \in Procs |-> [pc |-> "idle", settings |-> 0,
                                  sync_gen |-> 0, marks |-> 0]]]

\* A process that is not inside _load_extensions.
NoLoad ==
    [pc |-> "idle", registered_extensions |-> {},
     registrations_to_fetch |-> <<>>, found_registrations |-> {}, k |-> 1,
     exc |-> "none", registration |-> [x \in Exts |-> 0], raced |-> {}]

\* No row, and no process loading.
NoRace == [rows |-> {}, next_id |-> 1, load |-> [p \in Procs |-> NoLoad]]

AuxIdle ==
    /\ pipeline = [p \in Procs |-> NoBundles]
    /\ race = NoRace
    /\ rl = NoAttempts
    /\ sc = NoSiteConfig
    /\ av = NoAvatars
    /\ sg = NoSaves

\* Nothing is computed apart from the managers, and no media is installed.
ComputedIdle ==
    /\ graph = DeclaredRequirements
    /\ mw = NoMiddleware
    /\ iv = NoInit
    /\ media = NoMedia

OthersIdle == ComputedIdle /\ AuxIdle

Init == ManagerInit /\ dict_order \in DictOrders /\ SLWIdle /\ OthersIdle

Spec == Init /\ [][Next]_vars

----------------------------------------------------------------------------
(* The wrapper driven by arbitrary calls.                                  *)

\* How often item occurs among the first n entries of items.
RECURSIVE CountIn(_, _, _)
CountIn(items, n, item) ==
    IF n = 0 THEN 0
    ELSE CountIn(items, n - 1, item) + (IF items[n] = item THEN 1 ELSE 0)

NoCall == [op |-> "none", item |-> "none", items |-> <<>>, ret |-> FALSE,
           removed |-> <<>>, exc |-> "none", before |-> <<>>]

\* Duplicate-free lists the setting may hold when the wrapper is built.
InitialSettings == {s \in SeqsUpTo(SLWItems, 2) : NoDuplicates(s)}

SLWInit ==
    /\ ManagerInit
    /\ OthersIdle
    /\ dict_order = <<"a", "b">>
    /\ slw_initial \in InitialSettings
    /\ slw = SettingListWrapper(slw_initial)
    /\ slw_adds = [i \in SLWItems |-> 0]
    /\ slw_removes = [i \in SLWItems |-> 0]
    /\ slw_last = NoCall

SLWAdd(item) ==
    /\ slw_adds[item] < MaxAdds
    /\ LET r == add(slw, item)
       IN  /\ slw' = r.w
           /\ slw_adds' = IF r.exc = "none"
                          THEN [slw_adds EXCEPT ![item] = @ + 1]
                          ELSE slw_adds
           /\ slw_last' = [NoCall EXCEPT !.op = "add", !.item = item,
                                         !.exc = r.exc,
                                         !.before = slw.setting]
    /\ UNCHANGED <<slw_initial, slw_removes, mgr_vars, other_vars, aux_vars>>

SLWAddList(items) ==
    /\ \A i \in SLWItems : slw_adds[i] + CountIn(items, Len(items), i) <= MaxAdds
    /\ LET r == add_list(slw, items)
       IN  /\ slw' = r.w
           /\ slw_adds' = [i \in SLWItems |->
                              slw_adds[i] + CountIn(items, r.done, i)]
           /\ slw_last' = [NoCall EXCEPT !.op = "add_list", !.items = items,
                                         !.exc = r.exc,
                                         !.before = slw.setting]
    /\ UNCHANGED <<slw_initial, slw_removes, mgr_vars, other_vars, aux_vars>>

SLWRemove(item) ==
    /\ LET r == remove(slw, item)
       IN  /\ slw' = r.w
           /\ slw_removes' = IF r.exc = "none"
                             THEN [slw_removes EXCEPT ![item] = @ + 1]
                             ELSE slw_removes
           /\ slw_last' = [NoCall EXCEPT !.op = "remove", !.item = item,
                                         !.ret = r.ret, !.exc = r.exc,
                                         !.before = slw.setting]
    /\ UNCHANGED <<slw_initial, slw_adds, mgr_vars, other_vars, aux_vars>>

SLWRemoveList(items) ==
    /\ LET r == remove_list(slw, items)
       IN  /\ slw' = r.w
           /\ slw_removes' = [i \in SLWItems |->
                                 slw_removes[i] + CountIn(items, r.done, i)]
           /\ slw_last' = [NoCall EXCEPT !.op = "remove_list",
                                         !.items = items,
                                         !.removed = r.ret, !.exc = r.exc,
                                         !.before = slw.setting]
    /\ UNCHANGED <<slw_initial, slw_adds, mgr_vars, other_vars, aux_vars>>

SLWNext ==
    \/ \E item \in SLWItems : SLWAdd(item)
    \/ \E items \in SeqsUpTo(SLWItems, MaxListLen) : SLWAddList(items)
    \/ \E item \in SLWItems : SLWRemove(item)
    \/ \E items \in SeqsUpTo(SLWItems, MaxListLen) : SLWRemoveList(items)

SLWSpec == SLWInit /\ [][SLWNext]_vars

----------------------------------------------------------------------------
(* Properties of the wrapper.                                              *)

\* References an item holds: 1 if the setting had it at construction, plus
\* one per add().
Held(item) == (IF Contains(slw_initial, item) THEN 1 ELSE 0) + slw_adds[item]

\* C7: an item is removed only when nothing needs it anymore.  It is in the
\* list exactly while fewer remove() calls than references (one for an item
\* of the initial setting, one per add()) have been made, and remove()
\* returns True exactly on the call that releases the last reference.
C7_RemovedOnLastReference ==
    \A item \in SLWItems :
        /\ slw_removes[item] <= Held(item)
        /\ Contains(slw.setting, item) <=> slw_removes[item] < Held(item)
        /\ (slw_last.op = "remove" /\ slw_last.item = item
                /\ slw_last.exc = "none")
           => (slw_last.ret <=> slw_removes[item] = Held(item))

\* An item that was not in the initial setting has been added MaxAdds times
\* and the last of as many remove() calls returned True and took it out.
C7_Witness ==
    \E item \in SLWItems :
        /\ ~Contains(slw_initial, item)
        /\ slw_adds[item] = MaxAdds
        /\ slw_removes[item] = MaxAdds
        /\ slw_last.op = "remove" /\ slw_last.item = item /\ slw_last.ret
        /\ Contains(slw_last.before, item)
        /\ ~Contains(slw.setting, item)

\* C8: a wrapper built over a duplicate-free list never holds an item more
\* than once, whatever add/add_list/remove/remove_list calls were made.
C8_NoItemTwice == NoDuplicates(slw.setting)

\* add() was called on an item the list already held, and returned.
C8_Witness ==
    /\ slw_last.op = "add" /\ slw_last.exc = "none"
    /\ Contains(slw_last.before, slw_last.item)
    /\ slw.ref_counts[slw_last.item] >= 2

\* C9: remove_list() never fails on an item that is not in the list: it
\* returns normally, and reports such an item among the removed ones.
C9_RemoveListToleratesMissing ==
    slw_last.op = "remove_list" =>
        /\ slw_last.exc = "none"
        /\ \A k \in 1..Len(slw_last.items) :
               ~Contains(slw_last.before, slw_last.items[k])
               => Contains(slw_last.removed, slw_last.items[k])

----------------------------------------------------------------------------
(* Properties of the managers.                                             *)

\* y requires x, directly or through other extensions.
Requires(y, x) == x # y /\ x \in WithRequirements(y)

\* Whether the settings lists of manager m still hold something of x that
\* no other enabled extension of m accounts for.
LeftInSettings(m, x) ==
    LET others(c, decl(_)) ==
            \E y \in m.instances \ {x} : Contains(decl(y), c)
    IN  \/ \E k \in 1..Len(apps(x)) :
              /\ Contains(m.installed_apps.setting, apps(x)[k])
              /\ ~others(apps(x)[k], apps)
        \/ \E k \in 1..Len(context_processors(x)) :
              /\ Contains(m.context_processors.setting,
                          context_processors(x)[k])
              /\ ~others(context_processors(x)[k], context_processors)

\* C1: once enable_extension or disable_extension has changed an
\* extension's state in one process, every other process finds its state
\* expired until it has called load() itself.
C1_ExpiredUntilReload ==
    \A q \in Procs : stale[q] => is_expired(mgr[q], cache_gen)

\* C2: after enable_extension(X) returns normally, X and everything X
\* requires are enabled, and no extension was initialized before one that
\* it requires.
C2_EnableCascade ==
    (last.op = "enable_extension" /\ last.exc = "none") =>
        /\ WithRequirements(last.ext) \subseteq mgr[last.proc].instances
        /\ \A i, j \in 1..Len(last.inits) :
               Requires(last.inits[j], last.inits[i]) => i < j

\* C3: after disable_extension(X) on an enabled X returns normally, nothing
\* that requires X is enabled, and no extension was shut down before one
\* that requires it.
C3_DisableCascade ==
    (/\ last.op = "disable_extension"
     /\ last.exc = "none"
     /\ last.ext \in last.inst_before) =>
        /\ \A y \in Exts :
               Requires(y, last.ext) => y \notin mgr[last.proc].instances
        /\ \A i, j \in 1..Len(last.uninits) :
               Requires(last.uninits[i], last.uninits[j]) => i < j

\* C4: when the initialization of an extension fails after its instance was
\* created, enable_extension raises and leaves the extension neither in the
\* enabled set nor in the settings lists, and its registration is not
\* saved as enabled.
C4_RollsBack ==
    (last.op = "enable_extension" /\ last.half_inited # {}) =>
        /\ last.exc # "none"
        /\ \A x \in last.half_inited :
               /\ x \notin mgr[last.proc].instances
               /\ ~LeftInSettings(mgr[last.proc], x)
               /\ x \in Enabled(db) => x \in last.enabled_before

\* The extensions whose entry point or constructor failed in the last call.
FailedInLoad ==
    IF \/ last.fail.kind = "entry" /\ last.fail.ext \in last.stored
       \/ last.fail.kind = "ctor" /\ last.fail.ext \in last.attempted
    THEN {last.fail.ext}
    ELSE {}

\* C5: when an entry point or a constructor fails during load(), the error
\* is in the load errors under the extension's ID, the extension is neither
\* in the enabled set nor in the settings lists, and every other extension
\* that is recorded as enabled and has an entry point is initialized.
C5_LoadErrorsRecorded ==
    (last.op \in {"load", "install_extension"}) =>
        \A x \in FailedInLoad :
            /\ x \in mgr[last.proc].load_errors
            /\ x \notin mgr[last.proc].instances
            /\ ~LeftInSettings(mgr[last.proc], x)
            /\ \A y \in (last.enabled_before \cap last.eps) \ {x} :
                   y \in mgr[last.proc].instances

\* C6: after disable_extension(X) returns normally, X is not enabled in the
\* manager and has no load error, and if it was enabled or had a load
\* error before, its registration is saved as not enabled.
C6_Disabled ==
    (last.op = "disable_extension" /\ last.exc = "none") =>
        /\ last.ext \notin mgr[last.proc].instances
        /\ last.ext \notin mgr[last.proc].load_errors
        /\ last.ext \in (last.inst_before \cup last.err_before)
           => db[last.ext].exists /\ ~db[last.ext].enabled

\* C10: a call of load() never bumps the sync generation: mark_updated is
\* not called, and the generation in the cache is the one load() found.
C10_LoadNeverBumps ==
    (last.op \in {"load", "install_extension"}) =>
        /\ last.marks = 0
        /\ cache_gen = last.gen_before

\* A load() made after the generation had been bumped found an enabled
\* extension gone and disabled it: _bump_sync_gen was reached and returned
\* without bumping.
C10_Witness ==
    /\ last.op = "load"
    /\ last.blocked > 0
    /\ last.gen_before > 0
    /\ cache_gen = last.gen_before

\* A full reload of the last caller that returned normally.
FullReloadDone ==
    /\ last.op \in {"load", "install_extension"}
    /\ last.full
    /\ last.exc = "none"

\* C15: after load(full_reload=True) has completed, the extensions enabled
\* in the manager are exactly those whose entry point was found, whose
\* registration is recorded as enabled and whose initialization succeeded,
\* whatever was enabled before, and the load errors recorded are exactly
\* those this load produced.
C15_FullReloadFromScratch ==
    FullReloadDone =>
        /\ mgr[last.proc].instances =
               (found_extensions(last.eps, last.fail) \cap Enabled(db))
               \ last.stored
        /\ mgr[last.proc].load_errors = last.stored

\* A completed full reload that dropped an extension enabled before it and
\* a load error recorded before it.
C15_Witness ==
    /\ FullReloadDone
    /\ last.inst_before \ mgr[last.proc].instances # {}
    /\ mgr[last.proc].instances # {}

\* The extensions a load knew before it and no longer found.
Vanished == last.cls_before \ last.eps

\* C16: a second load() that no longer finds the entry point of a known
\* extension completes with that extension disabled and removed from the
\* installed extensions, the other extensions staying as they were.
C16_ReloadDropsVanished ==
    (last.op = "load" /\ ~last.full /\ Vanished # {}) =>
        /\ last.exc = "none"
        /\ mgr[last.proc].classes = last.cls_before \ Vanished
        /\ mgr[last.proc].instances = last.inst_before \ Vanished

RedundantCall(op, p, x) ==
    \/ op = "enable_extension" /\ x \in mgr[p].instances
    \/ /\ op = "disable_extension"
       /\ x \notin mgr[p].instances
       /\ x \notin mgr[p].load_errors

\* C20: a redundant enable_extension or disable_extension changes nothing:
\* the enabled set, load errors, settings lists, registrations, middleware
\* and sync generation are as they were.
C20_RedundantCallsAreNoOps ==
    [][(calls' = calls + 1 /\ entrypoints' = entrypoints
        /\ RedundantCall(last'.op, last'.proc, last'.ext))
       => (mgr' = mgr /\ db' = db /\ cache_gen' = cache_gen
           /\ last'.exc = "none")]_vars

\* enable_extension was called on an extension that was already enabled,
\* in a manager that had changed the sync generation before.
C20_Witness ==
    /\ last.op = "enable_extension"
    /\ last.ext \in last.inst_before
    /\ last.exc = "none"
    /\ last.gen_before > 0

----------------------------------------------------------------------------
(* _recalculate_middleware on its own, over the requirement graphs of      *)
(* three extension classes.                                                *)

MwExts == {"a", "b", "c"}

\* The most requirements one class declares.
MaxRequirements == 2

\* No class requires, directly or not, itself.
Acyclic(g) ==
    \E rank \in [MwExts -> 1..Cardinality(MwExts)] :
        \A x \in MwExts : \A y \in SeqSet(g[x]) : rank[y] < rank[x]

RequirementGraphs ==
    {g \in [MwExts -> {s \in SeqsUpTo(MwExts, MaxRequirements) :
                         NoDuplicates(s)}] : Acyclic(g)}

\* Orders in which the dict of enabled extensions may be iterated.
MwOrders ==
    {o \in [1..Cardinality(MwExts) -> MwExts] :
        \A i, j \in 1..Cardinality(MwExts) : o[i] = o[j] => i = j}

MwInit ==
    /\ ManagerInit
    /\ dict_order = <<"a", "b">>
    /\ SLWIdle
    /\ graph \in RequirementGraphs
    /\ mw \in [instances : SUBSET MwExts, order : MwOrders,
                middleware : {<<>>}, recalculated : {FALSE}]
    /\ iv = NoInit
    /\ media = NoMedia
    /\ AuxIdle

\* self._recalculate_middleware()
Recalculate ==
    /\ ~mw.recalculated
    /\ mw' = [_recalculate_middleware(mw, mw.order)
                  EXCEPT !.recalculated = TRUE]
    /\ UNCHANGED <<slw_vars, mgr_vars, graph, iv, media, aux_vars>>

MwNext == Recalculate

MwSpec == MwInit /\ [][MwNext]_vars

\* The places of x's middleware in the list.
Places(x) == {k \in 1..Len(mw.middleware) : mw.middleware[k] = x}

\* C18: after _recalculate_middleware, for every acyclic requirement graph,
\* the middleware of each enabled extension is in manager.middleware
\* exactly once, after the middleware of each of its enabled requirements.
C18_MiddlewareInRequirementOrder ==
    mw.recalculated =>
        /\ SeqSet(mw.middleware) = mw.instances
        /\ \A x \in mw.instances :
              /\ Cardinality(Places(x)) = 1
              /\ \A r \in SeqSet(graph[x]) \cap mw.instances :
                    \A i \in Places(r), j \in Places(x) : i < j

\* All three extensions are enabled, the dict yields first one that
\* requires another, and the list starts with another's middleware.
C18_Witness ==
    /\ mw.recalculated
    /\ mw.instances = MwExts
    /\ graph[mw.order[1]] # <<>>
    /\ mw.middleware[1] # mw.order[1]

----------------------------------------------------------------------------
(* _init_extension on its own: the extension a is initialized, and         *)
(* initialized again by a later load, over the registrations it can have.  *)

\* Times the extension is initialized in one behaviour.
MaxInits == 3

\* The versions a registration can record: none, one older than the
\* package on the system, its own, and a newer one.
Versions == {"none", "v0", "v1", "v2"}

Registrations ==
    [exists : {TRUE}, enabled : BOOLEAN, installed : BOOLEAN,
     version : Versions]

\* The world of a manager that has just loaded the class of a, whose
\* registration is row.
Loaded(row) ==
    World([ExtensionManager(0) EXCEPT !.classes = {"a"},
                                      !.registration["a"] = row,
                                      !.info["a"] = NewInfo],
          [x \in Exts |-> IF x = "a" THEN row ELSE NoRow], 0)

IvInit ==
    /\ ManagerInit
    /\ dict_order = <<"a", "b">>
    /\ SLWIdle
    /\ graph = DeclaredRequirements
    /\ mw = NoMiddleware
    /\ media = NoMedia
    /\ AuxIdle
    /\ \E row \in Registrations :
          iv = [NoInit EXCEPT !.first = row, !.before = row, !.after = row]

\* What _init_extension, ending in world w, made of the registration.
Initialized(w) ==
    [first |-> iv.first, before |-> iv.after, after |-> w.db["a"],
     synced |-> "a" \in w.synced, exc |-> w.exc, prev_exc |-> iv.exc,
     runs |-> iv.runs + 1]

\* self._init_extension(ext_class), the evolution failing or not.
InitExtension(f) ==
    /\ iv.runs < MaxInits
    /\ iv' = Initialized(_init_extension(Loaded(iv.after), "a", f))
    /\ UNCHANGED <<slw_vars, mgr_vars, graph, mw, media, aux_vars>>

IvNext == \E f \in {"none", "sync"} : InitExtension(f)

IvSpec == IvInit /\ [][IvNext]_vars

\* The registration is not marked installed, or records no version, or
\* records a version lower than the current one.
NotInstalledOrOlder(row) ==
    \/ ~row.installed
    \/ row.version = "none"
    \/ VersionLess(row.version, CurVersion)

\* The registration is installed with a version higher than the current.
InstalledNewer(row) ==
    /\ row.installed
    /\ row.version # "none"
    /\ VersionLess(CurVersion, row.version)

\* C19: _init_extension runs the database sync exactly when the
\* registration is not marked installed, records no version or records a
\* lower version than the current one; after the sync the recorded version
\* is the current one and a second initialization does not sync again; a
\* higher recorded version is neither synced nor changed.
C19_SyncWhenOlder ==
    iv.runs > 0 =>
        /\ iv.synced <=> NotInstalledOrOlder(iv.before)
        /\ (iv.synced /\ iv.exc = "none") => iv.after.version = CurVersion
        /\ (iv.runs > 1 /\ iv.prev_exc = "none") => ~iv.synced
        /\ InstalledNewer(iv.before) =>
              ~iv.synced /\ iv.after.version = iv.before.version

\* A registration with an older version was synced by the first
\* initialization and initialized again without a sync.
C19_Witness ==
    /\ iv.runs = 2
    /\ iv.first.installed /\ iv.first.version = "v0"
    /\ iv.before.version = CurVersion
    /\ ~iv.synced
    /\ iv.exc = "none"

----------------------------------------------------------------------------
(* The worker processes after a restart: one of them changes the state of  *)
(* an extension, and each reloads when it finds its generation expired.    *)

\* A registration left by an earlier run: enabled, installed and synced.
EnabledRow == [exists |-> TRUE, enabled |-> TRUE, installed |-> TRUE,
               version |-> CurVersion]

SyncInit ==
    /\ ProcessesStarted
    /\ db \in [Exts -> {NoRow, NewRow, EnabledRow}]
    /\ dict_order \in DictOrders
    /\ SLWIdle
    /\ OthersIdle

\* No process has changed the state of an extension yet.
Unchanged == cache_gen = 0

\* Process p loads: at any time before the change, and afterwards only
\* when it finds itself expired.
SyncLoad(p) ==
    /\ Unchanged \/ is_expired(mgr[p], cache_gen)
    /\ \E full \in BOOLEAN :
          Record(p, load(World(mgr[p], db, cache_gen), full, entrypoints,
                         NoOp.fail, dict_order),
                 "load", "none", full, entrypoints, NoOp.fail)
    /\ UNCHANGED <<entrypoints, calls, aux_vars>>

\* The one call that changes the state of an extension.
SyncEnable(p, x) ==
    /\ Unchanged
    /\ Record(p, enable_extension(World(mgr[p], db, cache_gen), x,
                                   NoOp.fail, dict_order),
              "enable_extension", x, FALSE, {}, NoOp.fail)
    /\ UNCHANGED <<entrypoints, calls, aux_vars>>

SyncDisable(p, x) ==
    /\ Unchanged
    /\ Record(p, disable_extension(World(mgr[p], db, cache_gen), x,
                                    dict_order),
              "disable_extension", x, FALSE, {}, NoOp.fail)
    /\ UNCHANGED <<entrypoints, calls, aux_vars>>

SyncNext ==
    \/ \E p \in Procs : SyncLoad(p)
    \/ \E p \in Procs, x \in Exts : SyncEnable(p, x)
    \/ \E p \in Procs, x \in Exts : SyncDisable(p, x)

\* Every process keeps serving requests, so one that is expired reloads.
SyncSpec ==
    /\ SyncInit
    /\ [][SyncNext]_vars
    /\ \A p \in Procs : WF_vars(SyncLoad(p))

NoneExpired == \A p \in Procs : ~is_expired(mgr[p], cache_gen)

----------------------------------------------------------------------------
(* install_extension_media for one extension, called once by each of       *)
(* several threads or processes.  A step is one system call of a caller;   *)
(* the lock file is a path that names an inode, and a lock is held on the  *)
(* inode a caller has opened.                                              *)

MediaCallers == {"c1", "c2", "c3"}

\* The contents of the version stamp: no file, an older version, or the
\* current one.
StampVersions == {"none", "v0", CurVersion}

\* A call not made yet, with its force argument and the installed flag of
\* the caller's registration.
NewCall(force, installed) ==
    [pc |-> "idle", force |-> force, installed |-> installed,
     old_version |-> "none", entry_version |-> "none", fd |-> 0,
     installs |-> 0, touched |-> FALSE, wrote |-> FALSE]

\* The calls of a new, an installed and a forcing caller; the installed
\* flag is not read when force is set.
CallKinds == <<NewCall(FALSE, FALSE), NewCall(FALSE, TRUE),
               NewCall(TRUE, FALSE)>>

\* The callers are interchangeable: c1, c2 and c3 make their calls in the
\* order of CallKinds.
Calls ==
    {[c \in MediaCallers |-> CallKinds[k[c]]] :
        k \in {h \in [MediaCallers -> 1..Len(CallKinds)] :
                  h["c1"] <= h["c2"] /\ h["c2"] <= h["c3"]}}

MediaInit ==
    /\ ManagerInit
    /\ dict_order = <<"a", "b">>
    /\ SLWIdle
    /\ graph = DeclaredRequirements
    /\ mw = NoMiddleware
    /\ iv = NoInit
    /\ AuxIdle
    /\ media \in [debug : BOOLEAN, stamp : StampVersions, path : {0},
                   inodes : {0}, locked : {{}}, call : Calls]

\* Caller c goes on as the record call says.
Goes(c, call) == [media EXCEPT !.call[c] = call]

\* A faulty entry that never looks at the version stamp.
EnterAlwaysInstalls(c) ==
    /\ media.call[c].pc = "idle"
    /\ media' = Goes(c, [media.call[c] EXCEPT !.pc = "loop"])

\* The checks before the loop, up to os.path.exists(media_version_filename).
Enter(c) ==
    /\ media.call[c].pc = "idle"
    /\ media' =
          Goes(c, [media.call[c] EXCEPT !.pc =
              IF media.debug THEN "done"
              ELSE IF media.call[c].force THEN "loop"
              ELSE IF media.call[c].installed /\ media.stamp # "none"
              THEN "read_entry"
              ELSE "loop"])

\* old_version = fp.read().strip(); if old_version == cur_version: return
ReadEntry(c) ==
    /\ media.call[c].pc = "read_entry"
    /\ media' =
          Goes(c, IF media.stamp = "none"
                  THEN [media.call[c] EXCEPT !.pc = "raised"]
                  ELSE [media.call[c] EXCEPT
                           !.old_version = media.stamp,
                           !.entry_version = media.stamp,
                           !.pc = IF media.stamp = CurVersion
                                  THEN "done" ELSE "loop"])

\* while old_version != cur_version: open(lockfile, 'w')
OpenLockFile(c) ==
    /\ media.call[c].pc = "loop"
    /\ media.call[c].old_version # CurVersion
    /\ media' =
          IF media.path = 0
          THEN [media EXCEPT !.inodes = @ + 1, !.path = media.inodes + 1,
                             !.call[c].fd = media.inodes + 1,
                             !.call[c].touched = TRUE,
                             !.call[c].pc = "opened"]
          ELSE [media EXCEPT !.call[c].fd = media.path,
                             !.call[c].touched = TRUE,
                             !.call[c].pc = "opened"]

\* A faulty lock that reports contention whoever holds the lock.
LockNeverGranted(c) ==
    /\ media.call[c].pc = "opened"
    /\ media' = [media EXCEPT !.call[c].fd = 0, !.call[c].pc = "sleeping"]

\* locks.lock(f, LOCK_EX | LOCK_NB): taken, or EAGAIN and the file closed.
Lock(c) ==
    /\ media.call[c].pc = "opened"
    /\ media' =
          IF media.call[c].fd \in media.locked
          THEN [media EXCEPT !.call[c].fd = 0, !.call[c].pc = "sleeping"]
          ELSE [media EXCEPT !.locked = @ \cup {media.call[c].fd},
                             !.call[c].pc = "locked"]

\* time.sleep(1); if os.path.exists(media_version_filename)
Sleep(c) ==
    /\ media.call[c].pc = "sleeping"
    /\ media' =
          Goes(c, [media.call[c] EXCEPT !.pc =
              IF media.stamp # "none" THEN "read_retry" ELSE "loop"])

\* old_version = fp.read().strip(); continue
ReadRetry(c) ==
    /\ media.call[c].pc = "read_retry"
    /\ media' =
          Goes(c, IF media.stamp = "none"
                  THEN [media.call[c] EXCEPT !.pc = "raised"]
                  ELSE [media.call[c] EXCEPT !.old_version = media.stamp,
                                             !.pc = "loop"])

\* _install_extension_media_internal: shutil.rmtree(ext_static_path), the
\* directory that holds the version stamp.
RemoveOldMedia(c) ==
    /\ media.call[c].pc = "locked"
    /\ media' = [media EXCEPT !.stamp = "none",
                              !.call[c].installs = @ + 1,
                              !.call[c].pc = "installing"]

\* _install_extension_media_internal: shutil.copytree(...)
CopyMedia(c) ==
    /\ media.call[c].pc = "installing"
    /\ media' = Goes(c, [media.call[c] EXCEPT !.pc = "installed"])

\* Writing the version stamp; an IOError is logged and nothing else.
WriteStamp(c) ==
    /\ media.call[c].pc = "installed"
    /\ \E ok \in BOOLEAN :
          media' = [media EXCEPT !.stamp = IF ok THEN CurVersion ELSE @,
                                 !.call[c].wrote = ok,
                                 !.call[c].pc = "stamped"]

\* old_version = cur_version; locks.unlock(f); the file is closed.
Unlock(c) ==
    /\ media.call[c].pc = "stamped"
    /\ media' = [media EXCEPT !.locked = @ \ {media.call[c].fd},
                              !.call[c].old_version = CurVersion,
                              !.call[c].fd = 0,
                              !.call[c].pc = "loop"]

\* After the loop: os.unlink(lockfile), ENOENT ignored.
UnlinkLockFile(c) ==
    /\ media.call[c].pc = "loop"
    /\ media.call[c].old_version = CurVersion
    /\ media' = [media EXCEPT !.path = 0, !.call[c].pc = "done"]

\* The next step of caller c.
MediaStep(c) ==
    /\ \/ Enter(c)
       \/ ReadEntry(c)
       \/ OpenLockFile(c)
       \/ Lock(c)
       \/ Sleep(c)
       \/ ReadRetry(c)
       \/ RemoveOldMedia(c)
       \/ CopyMedia(c)
       \/ WriteStamp(c)
       \/ Unlock(c)
       \/ UnlinkLockFile(c)
    /\ UNCHANGED <<slw_vars, mgr_vars, graph, mw, iv, aux_vars>>

MediaNext == \E c \in MediaCallers : MediaStep(c)

\* Every caller keeps running: a lock holder finishes its installation and
\* a caller that sleeps tries again.
MediaSpec ==
    /\ MediaInit
    /\ [][MediaNext]_vars
    /\ \A c \in MediaCallers : WF_vars(MediaStep(c))

\* The callers inside _install_extension_media_internal.
Installing == {c \in MediaCallers : media.call[c].pc = "installing"}

\* C12: at most one caller at a time executes
\* _install_extension_media_internal for the extension, and it does so
\* holding the lock on the extension's lock file.
C12_OneInstallerAtATime ==
    /\ Cardinality(Installing) <= 1
    /\ \A c \in Installing : media.call[c].fd \in media.locked

Returned(c) == media.call[c].pc \in {"done", "raised"}

NothingToInstall(c) ==
    \/ media.debug
    \/ /\ ~media.call[c].force
       /\ media.call[c].installed
       /\ media.call[c].entry_version = CurVersion

\* The call of c has returned without taking the lock or touching a file.
ReturnedUntouched(c) ==
    /\ media.call[c].pc = "done"
    /\ ~media.call[c].touched
    /\ media.call[c].installs = 0

\* C14: a call returns without taking the lock or touching a file when
\* static media is not installed at all, or when the extension is
\* installed, the stamp holds the current version and force is not set;
\* a call installs only otherwise, and an installation's successful stamp
\* write leaves the current version in the stamp.
C14_InstallsOnlyWhenNeeded ==
    [][\A c \in MediaCallers :
          /\ (media.call[c].pc # "idle" /\ NothingToInstall(c))'
                => ReturnedUntouched(c)'
          /\ (media.call[c].pc = "installed" /\ media'.call[c].wrote)
                => media'.stamp = CurVersion]_vars

\* One caller has returned at once on a current stamp and another has
\* installed the media and written the stamp.
C14_Witness ==
    \E c, d \in MediaCallers :
        /\ media.call[c].pc = "done" /\ NothingToInstall(c)
        /\ ~media.debug
        /\ media.call[d].pc = "stamped" /\ media.call[d].wrote

----------------------------------------------------------------------------
(* The managers together with Pipeline's settings of their processes: the  *)
(* static bundles _init_extension registers and disable_extension          *)
(* unregisters.                                                            *)

\* Manager calls in one behaviour that follows the static bundles.
MaxBundleCalls == 2

\* The world a call of process p works on, Pipeline's settings included.
WorldOf(p) == [World(mgr[p], db, cache_gen) EXCEPT !.pipeline = pipeline[p]]

\* The call op of process p ended in world w; its bundles stay registered.
BundleCommit(p, w, op, x, full, f) ==
    \E v \in {w} :
        /\ calls < MaxBundleCalls
        /\ calls' = calls + 1
        /\ Record(p, v, op, x, full, entrypoints, f)
        /\ pipeline' = [pipeline EXCEPT ![p] = v.pipeline]
        /\ UNCHANGED <<entrypoints, race, rl, sc, av, sg>>

BundleLoad(p) ==
    \E full \in BOOLEAN :
    \E f \in LoadFailures(p, full, entrypoints) :
        BundleCommit(p, load(WorldOf(p), full, entrypoints, f, dict_order),
                     "load", "none", full, f)

BundleEnable(p, x) ==
    \E f \in EnableFailures(p, x) :
        BundleCommit(p, enable_extension(WorldOf(p), x, f, dict_order),
                     "enable_extension", x, FALSE, f)

BundleDisable(p, x) ==
    BundleCommit(p, disable_extension(WorldOf(p), x, dict_order),
                 "disable_extension", x, FALSE, NoOp.fail)

BundleShutdown(p) ==
    BundleCommit(p, shutdown(WorldOf(p), dict_order),
                 "shutdown", "none", FALSE, NoOp.fail)

BundleNext ==
    \/ \E p \in Procs : BundleLoad(p)
    \/ \E p \in Procs, x \in Exts : BundleEnable(p, x)
    \/ \E p \in Procs, x \in Exts : BundleDisable(p, x)
    \/ \E p \in Procs : BundleShutdown(p)

\* The row of an extension that was enabled before its package was upgraded.
OutdatedRow == [exists |-> TRUE, enabled |-> TRUE, installed |-> TRUE,
                version |-> "v0"]

\* The rows of earlier runs are in the database when the processes start.
BundleInit ==
    /\ ProcessesStarted
    /\ db \in [Exts -> {NoRow, NewRow, EnabledRow, OutdatedRow}]
    /\ dict_order \in DictOrders
    /\ SLWIdle
    /\ OthersIdle

BundleSpec == BundleInit /\ [][BundleNext]_vars

\* The bundle IDs of extension x among the bundles registered in dict.
BundlesOf(x, dict) ==
    {id \in DOMAIN dict :
        \E n \in DOMAIN css_bundles(x) \cup DOMAIN js_bundles(x) :
            id = get_bundle_id(x, n)}

\* The bundles of extension y are the same in both dicts.
SameBundles(y, before, after) ==
    /\ BundlesOf(y, before) = BundlesOf(y, after)
    /\ \A id \in BundlesOf(y, before) : before[id] = after[id]

\* The step is a disable_extension(x) of process p that returns, on an
\* extension that was enabled: instantiated in p and enabled in its row.
DisablesEnabled(p, x) ==
    /\ calls' = calls + 1
    /\ last'.op = "disable_extension"
    /\ last'.proc = p
    /\ last'.ext = x
    /\ last'.exc = "none"
    /\ x \in last'.inst_before
    /\ x \in last'.enabled_before

\* C21: after disable_extension on an enabled extension none of its CSS or
\* JS bundle IDs remains in Pipeline's STYLESHEETS or JAVASCRIPT, and the
\* bundles of the extensions the call did not disable are unchanged.
C21_DisableUnregistersBundles ==
    [][\A p \in Procs, x \in Exts :
          DisablesEnabled(p, x) =>
              /\ BundlesOf(x, pipeline'[p].STYLESHEETS) = {}
              /\ BundlesOf(x, pipeline'[p].JAVASCRIPT) = {}
              /\ \A y \in Exts \ ({x} \cup SeqSet(last'.uninits)) :
                    /\ SameBundles(y, pipeline[p].STYLESHEETS,
                                   pipeline'[p].STYLESHEETS)
                    /\ SameBundles(y, pipeline[p].JAVASCRIPT,
                                   pipeline'[p].JAVASCRIPT)]_vars

----------------------------------------------------------------------------
(* _load_extensions in two processes at once: the queries that look for    *)
(* the registrations of the classes found and create the missing ones.     *)
(* Each query is one step; what lies between two queries touches only the  *)
(* process's own objects.                                                   *)

\* self._entrypoint_iterator(): both processes find the same packages.
EntryOrder == <<"a", "b">>

\* entrypoint.dist.project_name
project_name(x) == "pkg-" \o x

\* The text a value of a class_name lookup is compared as: a class name is
\* itself, the (class_name, project_name) pair is the text of the tuple.
smart_text(pair) == "('" \o pair[1] \o "', '" \o pair[2] \o "')"

\* The rows of class_name in the table.
RowsOf(rows, class_name) == {r \in rows : r.class_name = class_name}

\* The class names registrations are known for.
Found(l) == {r.class_name : r \in l.found_registrations}

\* RegisteredExtension.objects.all() and the loop over the entry points:
\* the classes with a row go to found_registrations, the others to
\* registrations_to_fetch.
preload(l, rows) ==
    LET known == {r.class_name : r \in rows}
    IN  [l EXCEPT
            !.registered_extensions = rows,
            !.found_registrations = {r \in rows : Contains(EntryOrder,
                                                          r.class_name)},
            !.registrations_to_fetch =
                [i \in 1..Len(SelectSeq(EntryOrder,
                                        LAMBDA x : x \notin known)) |->
                    LET x == SelectSeq(EntryOrder,
                                       LAMBDA y : y \notin known)[i]
                    IN  <<x, project_name(x)>>],
            !.k = 1,
            !.pc = IF \A x \in SeqSet(EntryOrder) : x \in known
                   THEN "attach" ELSE "filter"]

\* RegisteredExtension.objects.filter(class_name__in=registrations_to_fetch)
stored_registrations(l, rows) ==
    {r \in rows :
        \E i \in 1..Len(l.registrations_to_fetch) :
            r.class_name = smart_text(l.registrations_to_fetch[i])}

\* A faulty handler that lets the IntegrityError leave load().
integrity_error_raised(l) ==
    [l EXCEPT !.pc = "failed", !.exc = "IntegrityError"]

\* except IntegrityError: the entry is fetched from the database next.
integrity_error_caught(l) == [l EXCEPT !.pc = "get"]

\* The row objects.create(class_name=..., name=...) inserts.
created(tbl, pair) ==
    [id |-> tbl.next_id, class_name |-> pair[1], name |-> pair[2],
     enabled |-> FALSE]

\* One pass of the loop over registrations_to_fetch has its registration.
next_to_fetch(l, row) ==
    [l EXCEPT !.found_registrations = @ \cup {row},
              !.k = @ + 1,
              !.pc = IF l.k + 1 > Len(l.registrations_to_fetch)
                     THEN "attach" ELSE "create"]

\* ext_class.registration = registered_ext, for every registration found.
attach(l) ==
    [l EXCEPT !.registration =
                 [x \in Exts |->
                     IF x \in Found(l)
                     THEN (CHOOSE r \in l.found_registrations :
                               r.class_name = x).id
                     ELSE 0],
              !.pc = "done"]

\* What one step of process p leaves.
Loads(p, l, rows, next_id) ==
    /\ race' = [rows |-> rows, next_id |-> next_id,
               load |-> [race.load EXCEPT ![p] = l]]
    /\ UNCHANGED <<slw_vars, mgr_vars, other_vars, pipeline, rl, sc, av,
                   sg>>

Preload(p) ==
    /\ race.load[p].pc = "idle"
    /\ Loads(p, preload(race.load[p], race.rows), race.rows, race.next_id)

Filter(p) ==
    /\ race.load[p].pc = "filter"
    /\ Loads(p, [race.load[p] EXCEPT
                    !.found_registrations =
                        @ \cup stored_registrations(race.load[p],
                                                   race.rows),
                    !.pc = "create"],
             race.rows, race.next_id)

\* One pass of the loop that creates the registrations still missing: the
\* unique class_name makes create() raise IntegrityError when a row of the
\* class is there.
Create(p) ==
    LET l    == race.load[p]
        pair == l.registrations_to_fetch[l.k]
    IN  /\ l.pc = "create"
        /\ IF pair[1] \in Found(l)
           THEN Loads(p, [l EXCEPT !.k = @ + 1,
                                   !.pc = IF l.k + 1 >
                                             Len(l.registrations_to_fetch)
                                          THEN "attach" ELSE "create"],
                      race.rows, race.next_id)
           ELSE IF RowsOf(race.rows, pair[1]) # {}
           THEN Loads(p, integrity_error_caught(l), race.rows, race.next_id)
           ELSE Loads(p, next_to_fetch(l, created(race, pair)),
                      race.rows \cup {created(race, pair)}, race.next_id + 1)

\* RegisteredExtension.objects.get(class_name=class_name)
Get(p) ==
    LET l    == race.load[p]
        pair == l.registrations_to_fetch[l.k]
        rows == RowsOf(race.rows, pair[1])
    IN  /\ l.pc = "get"
        /\ IF Cardinality(rows) = 1
           THEN Loads(p, next_to_fetch([l EXCEPT !.raced = @ \cup {pair[1]}],
                                       CHOOSE r \in rows : TRUE),
                      race.rows, race.next_id)
           ELSE Loads(p, [l EXCEPT !.pc = "failed",
                                   !.exc = IF rows = {}
                                           THEN "DoesNotExist"
                                           ELSE "MultipleObjectsReturned"],
                      race.rows, race.next_id)

Attach(p) ==
    /\ race.load[p].pc = "attach"
    /\ Loads(p, attach(race.load[p]), race.rows, race.next_id)

RaceNext ==
    \E p \in Procs :
        Preload(p) \/ Filter(p) \/ Create(p) \/ Get(p) \/ Attach(p)

\* The table when the processes start: any of the classes may have its row
\* from an earlier run.
RaceInit ==
    /\ ManagerInit
    /\ dict_order = <<"a", "b">>
    /\ SLWIdle
    /\ ComputedIdle
    /\ pipeline = [p \in Procs |-> NoBundles]
    /\ rl = NoAttempts
    /\ sc = NoSiteConfig
    /\ av = NoAvatars
    /\ sg = NoSaves
    /\ \E known \in SUBSET Exts :
          race = [NoRace EXCEPT
                    !.rows = {[id |-> IF x = "a" THEN 1 ELSE 2,
                               class_name |-> x, name |-> project_name(x),
                               enabled |-> FALSE] : x \in known},
                    !.next_id = 3]

RaceSpec == RaceInit /\ [][RaceNext]_vars

\* Every process has left _load_extensions.
LoadsEnded == \A p \in Procs : race.load[p].pc \in {"done", "failed"}

\* C22: when the loads of two processes that discover the same new
\* extensions have ended, each class has exactly one row, no load has
\* failed, and every process has attached that row to its class.
C22_OneRowForRacingLoads ==
    LoadsEnded =>
        \A x \in Exts :
            /\ Cardinality(RowsOf(race.rows, x)) = 1
            /\ \A p \in Procs :
                  /\ race.load[p].exc = "none"
                  /\ \E r \in RowsOf(race.rows, x) :
                        race.load[p].registration[x] = r.id

\* Both loads have ended, and one of them fetched a row after its create
\* hit the row the other had just created.
C22_Witness ==
    /\ LoadsEnded
    /\ \E p \in Procs : race.load[p].raced # {}

----------------------------------------------------------------------------
(* djblets.auth.ratelimit: login attempts counted in the cache, per user   *)
(* or IP address and per time window.                                      *)

\* Seconds the clock advances in one behaviour.
MaxTime == 3
\* Calls of is_ratelimited in one behaviour.
MaxAttempts == 4

\* int() of the digit strings the rates below are written with.
IntOf(digits) ==
    CASE digits = "1" -> 1 [] digits = "2" -> 2 [] digits = "3" -> 3
      [] digits = "5" -> 5

\* Rate.PERIODS
PERIODS(period) ==
    CASE period = "s" -> 1 [] period = "m" -> 60 [] period = "h" -> 60 * 60
      [] period = "d" -> 24 * 60 * 60

\* The groups RATE_RE finds in the LOGIN_LIMIT_RATE settings '2/s', '2/2s',
\* '3/2s' and '2/3s'.
LoginLimitRates ==
    {[count |-> "2", multiplier |-> "", period |-> "s"],
     [count |-> "2", multiplier |-> "2", period |-> "s"],
     [count |-> "3", multiplier |-> "2", period |-> "s"],
     [count |-> "2", multiplier |-> "3", period |-> "s"]}

\* Rate.parse, from the groups of the match on.
RateParse(groups) ==
    LET seconds == PERIODS(IF groups.period = "" THEN "s" ELSE groups.period)
    IN  [count   |-> IntOf(groups.count),
         seconds |-> IF groups.multiplier # ""
                     THEN seconds * IntOf(groups.multiplier)
                     ELSE seconds]

\* The requests: a logged-in user, and clients known by an address only.
Requests ==
    {[is_authenticated |-> TRUE, pk |-> 7,
      META |-> [k \in {"REMOTE_ADDR"} |-> <<"10.0.0.1">>]],
     [is_authenticated |-> FALSE, pk |-> 0,
      META |-> [k \in {"REMOTE_ADDR"} |-> <<"10.0.0.1">>]],
     [is_authenticated |-> FALSE, pk |-> 0,
      META |-> [k \in {"HTTP_X_FORWARDED_FOR", "REMOTE_ADDR"} |->
                   IF k = "REMOTE_ADDR" THEN <<"10.0.0.9">>
                   ELSE <<"10.0.0.2", "10.0.0.1">>]]}

\* get_user_id_or_ip; a header is the list of the addresses it names.
get_user_id_or_ip(request) ==
    IF request.is_authenticated THEN ToString(request.pk)
    ELSE IF "HTTP_X_REAL_IP" \in DOMAIN request.META
    THEN request.META["HTTP_X_REAL_IP"][1]
    ELSE IF "HTTP_X_FORWARDED_FOR" \in DOMAIN request.META
    THEN request.META["HTTP_X_FORWARDED_FOR"][1]
    ELSE request.META["REMOTE_ADDR"][1]

\* _get_window(period) at the time timestamp.
_get_window(timestamp, period) ==
    IF period = 1 THEN timestamp
    ELSE (timestamp - (timestamp % period)) + period

\* '%s:%d/%d%s%s' % (DEFAULT_KEY, limit, period, user_id_or_ip, window)
cache_key(limit, period, user_id_or_ip, window) ==
    "login-ratelimit:" \o ToString(limit) \o "/" \o ToString(period)
        \o user_id_or_ip \o ToString(window)

\* cache.get(key, 0)
cache_get(cache, key) == IF key \in DOMAIN cache THEN cache[key] ELSE 0

\* cache.incr(key), or cache.add(key, 1) after its ValueError.
cache_incr_or_add(cache, key) ==
    IF key \in DOMAIN cache
    THEN [cache EXCEPT ![key] = @ + 1]
    ELSE DictSet(cache, key, 1)

\* The cache get_usage_count(request, increment) leaves at the time now.
cache_after(cache, rate_limit, request, increment, now) ==
    IF increment
    THEN cache_incr_or_add(
             cache,
             cache_key(rate_limit.count, rate_limit.seconds,
                       get_user_id_or_ip(request),
                       _get_window(now, rate_limit.seconds)))
    ELSE cache

\* get_usage_count(request, increment): what it returns.
get_usage_count(cache, rate_limit, request, increment, now) ==
    [count |-> cache_get(
                   cache_after(cache, rate_limit, request, increment, now),
                   cache_key(rate_limit.count, rate_limit.seconds,
                             get_user_id_or_ip(request),
                             _get_window(now, rate_limit.seconds))),
     limit |-> rate_limit.count,
     time_left |-> _get_window(now, rate_limit.seconds) - now]

\* return usage['count'] >= usage['limit']
at_limit(usage) == usage.count >= usage.limit

\* The attempts a user or IP has made with increment=True, per window.
Made(made, user, window) ==
    IF <<user, window>> \in DOMAIN made THEN made[<<user, window>>] ELSE 0

\* is_ratelimited(request, increment)
IsRatelimited(request, increment) ==
    LET rate_limit == RateParse(rl.rate)
        user       == get_user_id_or_ip(request)
        window     == _get_window(rl.now, rate_limit.seconds)
        usage      == get_usage_count(rl.cache, rate_limit, request,
                                      increment, rl.now)
        nth        == Made(rl.made, user, window)
                          + (IF increment THEN 1 ELSE 0)
    IN  /\ rl.calls < MaxAttempts
        /\ rl' = [rl EXCEPT
                     !.cache = cache_after(rl.cache, rate_limit, request,
                                           increment, rl.now),
                     !.made = IF increment
                              THEN DictSet(@, <<user, window>>, nth)
                              ELSE @,
                     !.calls = @ + 1,
                     !.last = [user |-> user, increment |-> increment,
                               nth |-> nth,
                               ratelimited |-> at_limit(usage),
                               count |-> usage.count,
                               limit |-> usage.limit,
                               time_left |-> usage.time_left]]
        /\ UNCHANGED <<slw_vars, mgr_vars, other_vars, pipeline, race, sc, av,
                   sg>>

\* A second passes.
Tick ==
    /\ rl.now < MaxTime
    /\ rl' = [rl EXCEPT !.now = @ + 1]
    /\ UNCHANGED <<slw_vars, mgr_vars, other_vars, pipeline, race, sc, av,
                   sg>>

RlNext ==
    \/ \E request \in Requests, increment \in BOOLEAN :
          IsRatelimited(request, increment)
    \/ Tick

RlInit ==
    /\ ManagerInit
    /\ dict_order = <<"a", "b">>
    /\ SLWIdle
    /\ ComputedIdle
    /\ pipeline = [p \in Procs |-> NoBundles]
    /\ race = NoRace
    /\ sc = NoSiteConfig
    /\ av = NoAvatars
    /\ sg = NoSaves
    /\ \E rate \in LoginLimitRates : rl = [NoAttempts EXCEPT !.rate = rate]

RlSpec == RlInit /\ [][RlNext]_vars

\* C23: within one window is_ratelimited(request, increment=True) returns
\* False for each of the first `limit` attempts of a user or IP, and True
\* only once that user or IP has made more attempts than the limit; the
\* attempts are those of the window the call falls in.
C23_LimitIsAttemptsAllowed ==
    (rl.last.increment /\ rl.last.nth > 0) =>
        (rl.last.ratelimited <=> rl.last.nth > rl.last.limit)

----------------------------------------------------------------------------
(* djblets.siteconfig.models.SiteConfiguration: the settings of a          *)
(* configuration and the defaults registered for it.                       *)

\* Calls on the configurations in one behaviour.
MaxSiteConfigCalls == 3

SettingKeys == {"k1", "k2"}

\* Values of settings: None, and two values that are not None.
SettingValues == {None, "v1", "v2"}

\* dict.get(key, default)
DictGet(d, key, default) == IF key \in DOMAIN d THEN d[key] ELSE default

\* dict.update(other)
DictUpdate(d, other) ==
    [k \in DOMAIN d \cup DOMAIN other |->
        IF k \in DOMAIN other THEN other[k] ELSE d[k]]

\* A faulty get() that never looks at the registered defaults.
get_without_defaults(settings, defaults, id, key, default) ==
    DictGet(settings[id], key, default)

\* SiteConfiguration.get(key, default) of the configuration id.
get(settings, defaults, id, key, default) ==
    DictGet(settings[id], key,
            IF default = None /\ id \in DOMAIN defaults
            THEN DictGet(defaults[id], key, None)
            ELSE default)

\* SiteConfiguration.set(key, value)
set(settings, id, key, value) ==
    [settings EXCEPT ![id] = DictSet(@, key, value)]

\* SiteConfiguration.add_defaults(defaults_dict)
add_defaults(defaults, id, defaults_dict) ==
    DictSet(defaults, id,
            DictUpdate(IF id \in DOMAIN defaults THEN defaults[id] ELSE <<>>,
                       defaults_dict))

\* SiteConfiguration.add_default(key, default_value)
add_default(defaults, id, key, default_value) ==
    add_defaults(defaults, id, [k \in {key} |-> default_value])

\* What a call on the configuration id leaves.
SiteConfigCall(op, id, key, value, default, result, settings, defaults) ==
    /\ sc.calls < MaxSiteConfigCalls
    /\ sc' = [settings |-> settings, _DEFAULTS |-> defaults,
              calls |-> sc.calls + 1,
              last |-> [op |-> op, id |-> id, key |-> key, value |-> value,
                        default |-> default, result |-> result]]
    /\ UNCHANGED <<slw_vars, mgr_vars, other_vars, pipeline, race, rl, av,
                   sg>>

ConfigGet(id, key, default) ==
    SiteConfigCall("get", id, key, None, default,
                   get(sc.settings, sc._DEFAULTS, id, key, default),
                   sc.settings, sc._DEFAULTS)

ConfigSet(id, key, value) ==
    SiteConfigCall("set", id, key, value, None, None,
                   set(sc.settings, id, key, value), sc._DEFAULTS)

AddDefaults(id, value) ==
    SiteConfigCall("add_defaults", id, "", value, None, None, sc.settings,
                   add_defaults(sc._DEFAULTS, id,
                                [k \in SettingKeys |-> value]))

AddDefault(id, key, value) ==
    SiteConfigCall("add_default", id, key, value, None, None, sc.settings,
                   add_default(sc._DEFAULTS, id, key, value))

SiteConfigNext ==
    \E id \in SiteConfigs, key \in SettingKeys, value \in SettingValues :
        \/ ConfigGet(id, key, value)
        \/ ConfigSet(id, key, value)
        \/ AddDefaults(id, value)
        \/ AddDefault(id, key, value)

SiteConfigInit ==
    /\ ManagerInit
    /\ dict_order = <<"a", "b">>
    /\ SLWIdle
    /\ ComputedIdle
    /\ pipeline = [p \in Procs |-> NoBundles]
    /\ race = NoRace
    /\ rl = NoAttempts
    /\ sc = NoSiteConfig
    /\ av = NoAvatars
    /\ sg = NoSaves

SiteConfigSpec == SiteConfigInit /\ [][SiteConfigNext]_vars

\* The default registered for the key of configuration id, if there is one.
Registered(id, key) ==
    /\ id \in DOMAIN sc._DEFAULTS
    /\ key \in DOMAIN sc._DEFAULTS[id]

\* C24: get(key, default) returns the stored value when the key is set (so
\* get(k) after set(k, v) returns v), otherwise the default the caller
\* passed, otherwise the default registered for the configuration through
\* add_defaults or add_default, otherwise None.
C24_GetFallsBackInOrder ==
    LET id == sc.last.id
        key == sc.last.key
    IN  /\ sc.last.op = "set" =>
              get(sc.settings, sc._DEFAULTS, id, key, None) = sc.last.value
        /\ sc.last.op = "get" =>
              sc.last.result =
                  IF key \in DOMAIN sc.settings[id] THEN sc.settings[id][key]
                  ELSE IF sc.last.default # None THEN sc.last.default
                  ELSE IF Registered(id, key) THEN sc._DEFAULTS[id][key]
                  ELSE None

\* get() has answered with a registered default: the key was not set and
\* the caller passed no default.
C24_Witness ==
    /\ sc.last.op = "get"
    /\ sc.last.key \notin DOMAIN sc.settings[sc.last.id]
    /\ sc.last.default = None
    /\ Registered(sc.last.id, sc.last.key)
    /\ sc.last.result # None

----------------------------------------------------------------------------
(* djblets.avatars.services.base.AvatarService: the avatar URLs cached on  *)
(* the request.                                                            *)

\* Calls of get_avatar_urls in one behaviour.
MaxAvatarCalls == 3
\* Times a user changes the avatar in one behaviour.
MaxAvatarChanges == 1

\* avatar_service_id of the services registered.
AvatarServiceIds == {"gravatar", "file-upload"}

\* The sizes avatars are asked for, in pixels.
AvatarSizes == {32, 64}

\* get_avatar_urls_uncached of the service, while the user's avatar is the
\* one numbered avatar: the URLs name the service, the user, the avatar and
\* the size at each resolution.
get_avatar_urls_uncached(service, user, size, avatar) ==
    [res \in {"1x", "2x", "3x"} |->
        <<service, user, avatar,
          size * (CASE res = "1x" -> 1 [] res = "2x" -> 2 [] res = "3x" -> 3)>>]

\* A faulty key that leaves the size out.
key_without_size(user, service, size) == <<user, service>>

\* key = (user.pk, self.avatar_service_id, size)
avatar_key(user, service, size) == <<user, service, size>>

\* if not hasattr(request, '_avatar_cache'): request._avatar_cache = {}
with_avatar_cache(request) ==
    IF request.has_avatar_cache THEN request
    ELSE [has_avatar_cache |-> TRUE, _avatar_cache |-> <<>>]

\* get_avatar_urls(request, user, size) of the service: the URLs it
\* returns, and the request it leaves.
get_avatar_urls(request, service, user, size, avatar) ==
    LET key == avatar_key(user, service, size)
        req == with_avatar_cache(request)
    IN  IF key \in DOMAIN req._avatar_cache
        THEN [urls |-> req._avatar_cache[key], request |-> req,
              computed |-> FALSE]
        ELSE [urls |-> get_avatar_urls_uncached(service, user, size, avatar),
              request |->
                  [req EXCEPT !._avatar_cache =
                      DictSet(@, key,
                              get_avatar_urls_uncached(service, user, size,
                                                       avatar))],
              computed |-> TRUE]

\* The number stored for what was asked in the function counts.
CountOf(counts, asked) ==
    IF asked \in DOMAIN counts THEN counts[asked] ELSE 0

GetAvatarUrls(r, service, user, size) ==
    LET got   == get_avatar_urls(av.requests[r], service, user, size,
                                 av.avatar[user])
        asked == <<user, service, size>>
    IN  /\ av.calls < MaxAvatarCalls
        /\ av' = [av EXCEPT
                     !.requests[r] = got.request,
                     !.uncached[r] =
                         IF got.computed
                         THEN DictSet(@, asked, CountOf(@, asked) + 1)
                         ELSE @,
                     !.first[r] = IF asked \in DOMAIN @ THEN @
                                  ELSE DictSet(@, asked, got.urls),
                     !.calls = @ + 1,
                     !.last = [request |-> r, user |-> user,
                               service |-> service, size |-> size,
                               urls |-> got.urls,
                               computed |-> got.computed,
                               avatar |-> av.avatar[user]]]
        /\ UNCHANGED <<slw_vars, mgr_vars, other_vars, pipeline, race, rl,
                       sc, sg>>

\* The user uploads a new avatar while requests are being served.
ChangeAvatar(user) ==
    /\ av.avatar[user] < MaxAvatarChanges
    /\ av' = [av EXCEPT !.avatar[user] = @ + 1]
    /\ UNCHANGED <<slw_vars, mgr_vars, other_vars, pipeline, race, rl, sc,
                   sg>>

AvatarNext ==
    \/ \E r \in AvatarRequests, service \in AvatarServiceIds,
          user \in AvatarUsers, size \in AvatarSizes :
          GetAvatarUrls(r, service, user, size)
    \/ \E user \in AvatarUsers : ChangeAvatar(user)

AvatarInit ==
    /\ ManagerInit
    /\ dict_order = <<"a", "b">>
    /\ SLWIdle
    /\ ComputedIdle
    /\ pipeline = [p \in Procs |-> NoBundles]
    /\ race = NoRace
    /\ rl = NoAttempts
    /\ sc = NoSiteConfig
    /\ av = NoAvatars
    /\ sg = NoSaves

AvatarSpec == AvatarInit /\ [][AvatarNext]_vars

\* C25: within one request the URLs of a (user pk, service ID, size) are
\* computed through get_avatar_urls_uncached at most once, every call
\* returns what the first call with its key returned, and what a call
\* returns are the URLs of its own user, service and size.
C25_CachedPerUserServiceSize ==
    /\ \A r \in AvatarRequests :
          \A asked \in DOMAIN av.uncached[r] : av.uncached[r][asked] <= 1
    /\ av.calls > 0 =>
          LET asked == <<av.last.user, av.last.service, av.last.size>>
          IN  /\ av.last.urls = av.first[av.last.request][asked]
              /\ \E avatar \in 0..MaxAvatarChanges :
                    av.last.urls =
                        get_avatar_urls_uncached(av.last.service,
                                                 av.last.user, av.last.size,
                                                 avatar)

\* A call was answered from the cache of its request although the user's
\* avatar had changed since the URLs were computed.
C25_Witness ==
    /\ av.calls > 1
    /\ ~av.last.computed
    /\ av.last.urls # get_avatar_urls_uncached(av.last.service, av.last.user,
                                               av.last.size, av.last.avatar)

----------------------------------------------------------------------------
(* A load that is not a full reload, after another process has changed the  *)
(* registrations.                                                          *)

\* The last call is a load() without full_reload that has returned.
PartialLoadDone ==
    /\ last.op = "load"
    /\ ~last.full
    /\ last.exc = "none"

\* C26: after load() without full_reload has completed in a process, no
\* extension whose registration is recorded as disabled in the database
\* remains enabled (instantiated) in that process.
C26_LoadDropsDisabled ==
    PartialLoadDone => mgr[last.proc].instances \subseteq Enabled(db)

----------------------------------------------------------------------------
(* SiteConfiguration.save() in one process while the others reload the     *)
(* configuration when they find it expired.  The settings are numbered in  *)
(* the order they are made.                                                *)

\* save() calls in one behaviour.
MaxSaves == 3

\* The copy process p holds, and the generation in the cache with it.
Holder(p) ==
    [pc |-> sg.holder[p].pc, settings |-> sg.holder[p].settings,
     sync_gen |-> sg.holder[p].sync_gen, marks |-> sg.holder[p].marks,
     cache |-> sg.cache]

\* What a step of process p leaves of its copy h, of the row and of the
\* cache.
Holds(p, h, row, newest, saves) ==
    /\ sg' = [row |-> row, cache |-> h.cache, newest |-> newest,
              saves |-> saves,
              holder |-> [sg.holder EXCEPT
                             ![p] = [pc |-> h.pc, settings |-> h.settings,
                                     sync_gen |-> h.sync_gen,
                                     marks |-> h.marks]]]
    /\ UNCHANGED <<slw_vars, mgr_vars, other_vars, pipeline, race, rl, sc,
                   av>>

\* The settings are changed and save() is entered:
\* self._gen_sync.mark_updated(), and the caches of the process are cleared.
MarkUpdated(p) ==
    /\ sg.holder[p].pc = "idle"
    /\ sg.saves < MaxSaves
    /\ Holds(p, [mark_updated(Holder(p)) EXCEPT
                    !.settings = sg.newest + 1, !.pc = "saving"],
             sg.row, sg.newest + 1, sg.saves + 1)

\* super(SiteConfiguration, self).save(**kwargs): the row is written.
SaveRow(p) ==
    /\ sg.holder[p].pc = "saving"
    /\ Holds(p, [Holder(p) EXCEPT !.pc = "idle"], sg.holder[p].settings,
             sg.newest, sg.saves)

\* A process that finds its configuration expired fetches the row again.
FetchRow(p) ==
    /\ sg.holder[p].pc = "idle"
    /\ is_expired(sg.holder[p], sg.cache)
    /\ Holds(p, [Holder(p) EXCEPT !.settings = sg.row, !.pc = "fetched"],
             sg.row, sg.newest, sg.saves)

\* SiteConfiguration.__init__ of the object made from the row: a new
\* GenerationSynchronizer takes the generation the cache holds.
NewSiteConfiguration(p) ==
    /\ sg.holder[p].pc = "fetched"
    /\ Holds(p, [refresh(Holder(p)) EXCEPT !.pc = "idle"], sg.row, sg.newest,
             sg.saves)

SaveNext ==
    \E p \in Procs :
        \/ MarkUpdated(p)
        \/ SaveRow(p)
        \/ FetchRow(p)
        \/ NewSiteConfiguration(p)

SaveInit ==
    /\ ManagerInit
    /\ dict_order = <<"a", "b">>
    /\ SLWIdle
    /\ ComputedIdle
    /\ pipeline = [p \in Procs |-> NoBundles]
    /\ race = NoRace
    /\ rl = NoAttempts
    /\ sc = NoSiteConfig
    /\ av = NoAvatars
    /\ sg = NoSaves

SaveSpec == SaveInit /\ [][SaveNext]_vars

\* No process is inside save() or inside a reload.
NoneSaving == \A p \in Procs : sg.holder[p].pc = "idle"

\* C27: once a save has been made, no process whose is_expired() is false
\* holds settings older than the ones saved: a process that reloaded
\* because of the generation change has read the settings of that save.
C27_UnexpiredHoldsSaved ==
    NoneSaving =>
        \A p \in Procs :
            ~is_expired(sg.holder[p], sg.cache) =>
                sg.holder[p].settings >= sg.row


=============================================================================
